---- MODULE Spec2Model ----
(***************************************************************************)
(* MCP-CRM: the protocol and authorization layer of the Convex backend.    *)
(*                                                                         *)
(*   convex/mcp/authCodes.ts   authorization codes (create/exchange/sweep)  *)
(*   convex/mcp/pkce.ts        PKCE challenges (store/verify/sweep)         *)
(*   convex/mcp/sessions.ts    SSE sessions (create/lookup/sweep)           *)
(*   convex/lib/tokenAuth.ts   bearer-token identity resolution             *)
(*   convex/http.ts            the HTTP routes                              *)
(*   convex/mcp/server.ts      the JSON-RPC dispatcher                      *)
(*   convex/functions/accounts.ts, convex/lib/utils.ts, convex/lib/errors.ts *)
(*                             the account tools and what they rest on      *)
(*   convex/functions/{accounts,contacts,opportunities,tasks,reminders}.ts  *)
(*                             get, update, remove, restore; accounts.list  *)
(*                             and opportunities.create, contacts.create,   *)
(*                             opportunities.getPipelineSummary             *)
(*   convex/functions/users.ts, convex/functions/tenants.ts                *)
(*                             invite, deactivate, reactivate, updateRole; *)
(*                             update                                      *)
(*   mcp-proxy/index.js        the stdio proxy                             *)
(*                                                                         *)
(* Specifications, all over the same variables:                            *)
(*   SpecOAuth   the OAuth routes, each request served in one step         *)
(*   SpecRace    POST /oauth/token split at its mutation, two clients      *)
(*   SpecExpiry  codes and sessions against the clock and the sweeps       *)
(*   SpecToken   identity resolution applied to a family of tokens         *)
(*   SpecMcp     POST /mcp                                                 *)
(*   SpecSse     GET /sse, POST /messages and anonymous POST /mcp          *)
(*   SpecPkce    pkce.store, verify and cleanup beside the code exchange   *)
(*   SpecCrm     get, update, remove, restore called by two tenants' users *)
(*   SpecRefresh the refresh_token grant beside the code exchange          *)
(*   SpecAdmin   the admin tools called by an admin, a member, a stranger  *)
(*   SpecTools   the entity tools called through POST /mcp                 *)
(*   SpecOpp     opportunities.create and update against the contacts      *)
(*   SpecList    accounts.list followed page by page                       *)
(*   SpecParent  create, update, remove, restore of accounts and children  *)
(*   SpecUsers   invite, deactivate, reactivate, updateRole                *)
(*   SpecPipeline  getPipelineSummary beside tenants.update                *)
(*   SpecProxy   the stdio proxy; SpecProxyLive adds that fetches settle   *)
(*               and due callbacks run                                     *)
(*   SpecIds     create and lookup with generated ids that may repeat      *)
(*                                                                         *)
(* Tables are sequences of documents in creation order, so that .first()   *)
(* is the first match.  Time is Date.now() in milliseconds.  A random id   *)
(* (generateCode, generateShortId) is modelled as a fresh value: the       *)
(* n-th id generated is n; SpecIds alone lets a generated id repeat.       *)
(***************************************************************************)
EXTENDS Integers, Sequences, FiniteSets, TLC

VARIABLES
    now,          \* Date.now(), milliseconds
    ticks,        \* number of clock advances so far
    oauthCodes,   \* table oauthCodes
    oauthPkce,    \* table oauthPkce
    mcpSessions,  \* table mcpSessions
    users,        \* table users
    accounts,     \* table accounts
    contacts,     \* table contacts
    opportunities, \* table opportunities
    tasks,        \* table tasks
    reminders,    \* table reminders
    tenants,      \* table tenants
    auditLogs,    \* table auditLogs
    issued,       \* history: every code authCodes.create has returned
    tokenReq,     \* one POST /oauth/token request per client: position and outcome
    exchanges,    \* history: per code, the results of authCodes.exchange in order
    sseOpened,    \* history: every session GET /sse has created
    http,         \* the last request served by a single-step route, with its response
    authInput,    \* identity resolution: the token under test
    authResult,   \* identity resolution: the outcome
    stream,       \* stdio proxy: everything stdin will deliver, as symbols
    read,         \* stdio proxy: how many symbols of stream the data events have delivered
    buffer,       \* stdio proxy: let buffer
    pendingRequests, \* stdio proxy: let pendingRequests
    stdinEnded,   \* stdio proxy: let stdinEnded
    calls,        \* stdio proxy: the handleRequest calls in the order they were made
    stdout,       \* stdio proxy: the lines written to stdout
    exitCode      \* stdio proxy: the status process.exit was called with, -1 while running

vars == <<now, ticks, oauthCodes, oauthPkce, mcpSessions, users, accounts, contacts,
          opportunities, tasks, reminders, tenants, auditLogs, issued, tokenReq,
          exchanges, sseOpened, http, authInput, authResult, stream, read, buffer,
          pendingRequests, stdinEnded, calls, stdout, exitCode>>

oauthVars == <<oauthCodes, oauthPkce, issued, tokenReq, exchanges>>
crmVars == <<users, accounts, contacts, opportunities, tasks, reminders, tenants, auditLogs>>
authVars == <<authInput, authResult>>
proxyVars == <<stream, read, buffer, pendingRequests, stdinEnded, calls, stdout, exitCode>>

\* the stdio proxy is not running
ProxyNotStarted ==
    /\ stream = <<>>
    /\ read = 0
    /\ buffer = <<>>
    /\ pendingRequests = 0
    /\ stdinEnded = FALSE
    /\ calls = <<>>
    /\ stdout = <<>>
    /\ exitCode = -1

-----------------------------------------------------------------------------
(* Bounds of the model *)

MaxTicks == 1       \* clock advances in one behaviour
MaxCodes == 1       \* authorization codes minted in one behaviour
MaxExchanges == 2   \* exchanges recorded per code
MaxSessions == 1    \* SSE sessions opened in one behaviour
MaxAccounts == 1    \* accounts created in one behaviour
MaxAudits == 1      \* audit log entries written in one behaviour

Clients == {"c1", "c2"}

-----------------------------------------------------------------------------
(* Generic helpers over tables *)

\* index of the first document of table s satisfying P (.first()), 0 if none
FirstIndex(s, P(_)) ==
    LET m == {i \in 1..Len(s) : P(s[i])}
    IN  IF m = {} THEN 0 ELSE CHOOSE i \in m : \A j \in m : i <= j

\* the value a const is bound to: the element of a singleton
The(S) == CHOOSE r \in S : TRUE

\* ctx.db.delete of the document at position i
DeleteAt(s, i) == SubSeq(s, 1, i - 1) \o SubSeq(s, i + 1, Len(s))

-----------------------------------------------------------------------------
(* Bearer tokens.  A token is the sequence of its '.'-separated segments    *)
(* (token.split(".")); NoToken stands for null, undefined and "", which    *)
(* the code does not tell apart (!token).  A segment is either not         *)
(* base64 ("garbage": atob throws), base64 of something that is no JSON    *)
(* ("text": JSON.parse throws) or base64url of a JSON claim set ("json").   *)
(* In a claim set exp = 0 stands for an absent (or zero) exp, "" for an     *)
(* absent string claim and <<>> for an absent sub: the code tests all of   *)
(* them by truthiness or by !== against the expected value.  sub is the    *)
(* sequence of its '|'-separated parts.                                    *)

NoToken == <<>>

EXPECTED_ISSUER == "https://rare-sturgeon-827.convex.site"
EXPECTED_AUDIENCE == "convex"

NoClaims == [exp |-> 0, iss |-> "", aud |-> "", sub |-> <<>>, email |-> ""]

Seg(enc, claims) == [enc |-> enc, claims |-> claims]
HeaderSeg == Seg("json", NoClaims)
SigSeg == Seg("garbage", NoClaims)

\* a well-formed three-segment token carrying the claim set c
Jwt(c) == <<HeaderSeg, Seg("json", c), SigSeg>>

\* atob(padded.replace(...)) followed by JSON.parse: the claim set, or null
\* (modelled as [ok |-> FALSE]) when either step throws
decodeJwtPayload(token) ==
    IF Len(token) # 3 THEN [ok |-> FALSE, payload |-> NoClaims]
    ELSE IF token[2].enc # "json" THEN [ok |-> FALSE, payload |-> NoClaims]
    ELSE [ok |-> TRUE, payload |-> token[2].claims]

\* validateJwtClaims of the hardened token module (exp, then iss, then aud)
validateJwtClaims(payload, t) ==
    IF payload.exp = 0 THEN [valid |-> FALSE, error |-> "Token missing expiration claim"]
    ELSE IF payload.exp < (t \div 1000) THEN [valid |-> FALSE, error |-> "Token has expired"]
    ELSE IF payload.iss # EXPECTED_ISSUER THEN [valid |-> FALSE, error |-> "Invalid token issuer"]
    ELSE IF payload.aud # EXPECTED_AUDIENCE THEN [valid |-> FALSE, error |-> "Invalid token audience"]
    ELSE [valid |-> TRUE, error |-> ""]

-----------------------------------------------------------------------------
(* Errors (lib/errors.ts) and identity resolution *)

CRMError(code, message) ==
    [ok |-> FALSE, class |-> "CRMError", code |-> code, message |-> message]
unauthorized(message) == CRMError("UNAUTHORIZED", message)
forbidden(message) == CRMError("FORBIDDEN", message)

\* a CRMError constructed with details
CRMErrorWith(code, message, details) ==
    [ok |-> FALSE, class |-> "CRMError", code |-> code, message |-> message,
     details |-> details]

AuthContext(user) ==
    [ok |-> TRUE, userId |-> user._id, tenantId |-> user.tenantId,
     userRole |-> user.role, user |-> user]

\* ctx.db.get(userId): the user with that _id, if any
UsersById(tbl, id) == {i \in 1..Len(tbl) : tbl[i]._id = id}
\* .withIndex("by_email", q => q.eq("email", email)).first()
FirstByEmail(tbl, email) == FirstIndex(tbl, LAMBDA u : u.email = email)

\* the mutant of LookupUser: the email claim is tried before the sub claim
LookupUserEmailFirst(tbl, claims) ==
    LET byId == IF claims.sub # <<>> /\ claims.sub[1] # ""
                THEN UsersById(tbl, claims.sub[1]) ELSE {}
        k == IF claims.email # "" THEN FirstIndex(tbl, LAMBDA u : u.email = claims.email) ELSE 0
    IN  IF k # 0 THEN k ELSE IF byId # {} THEN CHOOSE j \in byId : TRUE ELSE 0

\* the user lookup shared by both token modules: sub's user id first, then email
LookupUser(tbl, claims) ==
    LET byId == IF claims.sub # <<>> /\ claims.sub[1] # ""
                THEN UsersById(tbl, claims.sub[1]) ELSE {}
        i == IF byId # {} THEN CHOOSE k \in byId : TRUE
             ELSE IF claims.email # "" THEN FirstByEmail(tbl, claims.email)
             ELSE 0
    IN  i

ResolveUser(tbl, claims) ==
    The({IF i = 0 THEN unauthorized("User not found. Please sign in at the auth app first.")
         ELSE IF ~tbl[i].isActive THEN forbidden("User account is deactivated")
         ELSE AuthContext(tbl[i]) : i \in {LookupUser(tbl, claims)}})

\* getAuthContextFromToken of convex/lib/tokenAuth.ts, the module lib/utils.ts
\* imports: the payload is decoded and its claims are used as they are
getAuthContextFromToken(tbl, token, t) ==
    IF token = NoToken THEN unauthorized("Missing authentication token")
    ELSE LET d == decodeJwtPayload(token)
         IN  IF ~d.ok THEN unauthorized("Invalid token format")
             ELSE ResolveUser(tbl, d.payload)

\* getAuthContextFromToken of the hardened token module: the claims are
\* validated (getTokenClaims) before the user is looked up
getAuthContextFromTokenValidated(tbl, token, t) ==
    IF token = NoToken THEN unauthorized("Missing authentication token. Please sign in")
    ELSE LET d == decodeJwtPayload(token)
         IN  IF ~d.ok THEN unauthorized("Invalid token format - could not decode JWT")
             ELSE LET v == validateJwtClaims(d.payload, t)
                  IN  IF ~v.valid THEN unauthorized(v.error)
                      ELSE ResolveUser(tbl, d.payload)

-----------------------------------------------------------------------------
(* The three expiring relations: convex/mcp/authCodes.ts, pkce.ts, sessions.ts *)

CODE_TTL == 5 * 60 * 1000        \* authCodes.create: expiresAt = now + 5 min
PKCE_TTL == 10 * 60 * 1000       \* pkce.store: expiresAt = now + 10 min
SESSION_TTL == 60 * 60 * 1000    \* sessions.create: expiresAt = now + 1 h

\* SHA-256 then base64url, on the verifiers of the model
S256(v) == CASE v = "v1" -> "h1" [] v = "v2" -> "h2" [] OTHER -> "h0"

InvalidGrant(description) == [error |-> "invalid_grant", error_description |-> description]

TokenResponse(token) ==
    [access_token |-> token, token_type |-> "Bearer", expires_in |-> 3600,
     refresh_token |-> token, scope |-> "mcp:tools"]

\* authCodes.create: insert the record for the generated code
AuthCodesCreate(codes, code, args, t) ==
    Append(codes, [code |-> code, token |-> args.token, state |-> args.state,
                   createdAt |-> t, expiresAt |-> t + CODE_TTL])

\* authCodes.exchange as it would be if the record were not deleted
AuthCodesExchangeKeepsCode(codes, pkce, args, t) ==
    LET i == FirstIndex(codes, LAMBDA r : r.code = args.code)
    IN  IF i = 0
        THEN [oauthCodes |-> codes, oauthPkce |-> pkce,
              result |-> InvalidGrant("Invalid authorization code")]
        ELSE IF codes[i].expiresAt < t
        THEN [oauthCodes |-> codes, oauthPkce |-> pkce,
              result |-> InvalidGrant("Authorization code expired")]
        ELSE [oauthCodes |-> codes, oauthPkce |-> pkce,
              result |-> TokenResponse(codes[i].token)]

\* authCodes.exchange as it would be if the record were deleted only after the
\* expiry check has passed
AuthCodesExchangeDeletesLate(codes, pkce, args, t) ==
    LET i == FirstIndex(codes, LAMBDA r : r.code = args.code)
    IN  IF i = 0
        THEN [oauthCodes |-> codes, oauthPkce |-> pkce,
              result |-> InvalidGrant("Invalid authorization code")]
        ELSE IF codes[i].expiresAt < t
        THEN [oauthCodes |-> codes, oauthPkce |-> pkce,
              result |-> InvalidGrant("Authorization code expired")]
        ELSE [oauthCodes |-> DeleteAt(codes, i), oauthPkce |-> pkce,
              result |-> TokenResponse(codes[i].token)]

\* authCodes.exchange as it would be if the stored challenge were verified
\* against code_verifier (S256) before the token is returned
AuthCodesExchangeVerifies(codes, pkce, args, t) ==
    LET i == FirstIndex(codes, LAMBDA r : r.code = args.code)
    IN  IF i = 0
        THEN [oauthCodes |-> codes, oauthPkce |-> pkce,
              result |-> InvalidGrant("Invalid authorization code")]
        ELSE LET codeRecord == codes[i]
                 deleted == DeleteAt(codes, i)
                 j == FirstIndex(pkce, LAMBDA c : c.state = codeRecord.state)
             IN  IF codeRecord.expiresAt < t
                 THEN [oauthCodes |-> deleted, oauthPkce |-> pkce,
                       result |-> InvalidGrant("Authorization code expired")]
                 ELSE IF j # 0 /\ pkce[j].codeChallenge # S256(args.codeVerifier)
                 THEN [oauthCodes |-> deleted, oauthPkce |-> DeleteAt(pkce, j),
                       result |-> InvalidGrant("Invalid code verifier")]
                 ELSE [oauthCodes |-> deleted,
                       oauthPkce |-> IF j # 0 THEN DeleteAt(pkce, j) ELSE pkce,
                       result |-> TokenResponse(codeRecord.token)]

\* the mutant of AuthCodesExchange: the challenge is removed before the expiry test
AuthCodesExchangeClearsPkceFirst(codes, pkce, args, t) ==
    LET i == FirstIndex(codes, LAMBDA r : r.code = args.code)
    IN  IF i = 0
        THEN [oauthCodes |-> codes, oauthPkce |-> pkce,
              result |-> InvalidGrant("Invalid authorization code")]
        ELSE LET codeRecord == codes[i]
                 deleted == DeleteAt(codes, i)
                 j == FirstIndex(pkce, LAMBDA c : c.state = codeRecord.state)
                 cleared == IF j # 0 THEN DeleteAt(pkce, j) ELSE pkce
             IN  IF codeRecord.expiresAt < t
                 THEN [oauthCodes |-> deleted, oauthPkce |-> cleared,
                       result |-> InvalidGrant("Authorization code expired")]
                 ELSE [oauthCodes |-> deleted, oauthPkce |-> cleared,
                       result |-> TokenResponse(codeRecord.token)]

\* the mutant of AuthCodesExchange: a code is expired from its expiresAt on
AuthCodesExchangeExpiresEarly(codes, pkce, args, t) ==
    LET i == FirstIndex(codes, LAMBDA r : r.code = args.code)
    IN  IF i = 0
        THEN [oauthCodes |-> codes, oauthPkce |-> pkce,
              result |-> InvalidGrant("Invalid authorization code")]
        ELSE LET codeRecord == codes[i]
                 deleted == DeleteAt(codes, i)
             IN  IF codeRecord.expiresAt <= t
                 THEN [oauthCodes |-> deleted, oauthPkce |-> pkce,
                       result |-> InvalidGrant("Authorization code expired")]
                 ELSE LET j == FirstIndex(pkce, LAMBDA c : c.state = codeRecord.state)
                      IN  [oauthCodes |-> deleted,
                           oauthPkce |-> IF j # 0 THEN DeleteAt(pkce, j) ELSE pkce,
                           result |-> TokenResponse(codeRecord.token)]

\* authCodes.exchange, one store transaction: the tables afterwards and the result
AuthCodesExchange(codes, pkce, args, t) ==
    LET i == FirstIndex(codes, LAMBDA r : r.code = args.code)
    IN  IF i = 0
        THEN [oauthCodes |-> codes, oauthPkce |-> pkce,
              result |-> InvalidGrant("Invalid authorization code")]
        ELSE LET codeRecord == codes[i]
                 deleted == DeleteAt(codes, i)
             IN  IF codeRecord.expiresAt < t
                 THEN [oauthCodes |-> deleted, oauthPkce |-> pkce,
                       result |-> InvalidGrant("Authorization code expired")]
                 ELSE LET j == FirstIndex(pkce, LAMBDA c : c.state = codeRecord.state)
                      IN  [oauthCodes |-> deleted,
                           oauthPkce |-> IF j # 0 THEN DeleteAt(pkce, j) ELSE pkce,
                           result |-> TokenResponse(codeRecord.token)]

\* authCodes.cleanup / pkce.cleanup / sessions.cleanup: delete what has expired
Sweep(tbl, t) == SelectSeq(tbl, LAMBDA r : ~(r.expiresAt < t))

\* the mutant of PkceStore: the record is inserted beside the one already stored
PkceStoreAppends(pkce, args, t) ==
    Append(pkce, [state |-> args.state, codeChallenge |-> args.codeChallenge,
                  codeChallengeMethod |-> args.codeChallengeMethod,
                  redirectUri |-> args.redirectUri,
                  createdAt |-> t, expiresAt |-> t + PKCE_TTL])

\* pkce.store: replace the challenge stored for the state
PkceStore(pkce, args, t) ==
    LET i == FirstIndex(pkce, LAMBDA c : c.state = args.state)
        kept == IF i # 0 THEN DeleteAt(pkce, i) ELSE pkce
    IN  Append(kept, [state |-> args.state, codeChallenge |-> args.codeChallenge,
                      codeChallengeMethod |-> args.codeChallengeMethod,
                      redirectUri |-> args.redirectUri,
                      createdAt |-> t, expiresAt |-> t + PKCE_TTL])

\* sessions.create: insert the record for the generated session id
SessionsCreate(sessions, sessionId, args, t) ==
    Append(sessions, [sessionId |-> sessionId, token |-> args.token,
                      createdAt |-> t, expiresAt |-> t + SESSION_TTL])

\* the mutant of SessionsLookup: the expiry test is left to the sweep
SessionsLookupTrustsSweep(sessions, sessionId, t) ==
    LET i == FirstIndex(sessions, LAMBDA r : r.sessionId = sessionId)
    IN  IF i = 0 THEN NoToken
        ELSE sessions[i].token

\* sessions.lookup: the session's token, or NoToken (null) when absent or expired
SessionsLookup(sessions, sessionId, t) ==
    LET i == FirstIndex(sessions, LAMBDA r : r.sessionId = sessionId)
    IN  IF i = 0 THEN NoToken
        ELSE IF sessions[i].expiresAt < t THEN NoToken
        ELSE sessions[i].token

-----------------------------------------------------------------------------
(* The values requests are drawn from *)

Epoch == 1000 * 1000      \* Date.now() at Init, milliseconds

UserA == [_id |-> "u1", email |-> "a@x", tenantId |-> "tA", role |-> "admin", isActive |-> TRUE]
UserB == [_id |-> "u2", email |-> "b@x", tenantId |-> "tB", role |-> "member", isActive |-> TRUE]
UserOff == [_id |-> "u3", email |-> "c@x", tenantId |-> "tA", role |-> "member", isActive |-> FALSE]
SeedUsers == <<UserA, UserB, UserOff>>
\* an active member of tenant tA
UserM == [_id |-> "u4", email |-> "m@x", tenantId |-> "tA", role |-> "member", isActive |-> TRUE]

\* DEFAULT_STAGES, the stages a tenant is created with
DEFAULT_STAGES == <<"lead", "qualified", "proposal", "negotiation", "closed_won", "closed_lost">>
TenantOf(id) ==
    [_id |-> id,
     settings |-> [opportunityStages |-> DEFAULT_STAGES, defaultCurrency |-> "USD"]]
SeedTenants == <<TenantOf("tA"), TenantOf("tB")>>

ClaimsOf(user, exp) ==
    [exp |-> exp, iss |-> EXPECTED_ISSUER, aud |-> EXPECTED_AUDIENCE,
     sub |-> <<user._id, "session">>, email |-> user.email]

TokA == Jwt(ClaimsOf(UserA, 100 * 1000))     \* user u1, exp far in the future
TokB == Jwt(ClaimsOf(UserB, 100 * 1000))     \* user u2, exp far in the future
TokM == Jwt(ClaimsOf(UserM, 100 * 1000))     \* user u4, exp far in the future
TokOld == Jwt(ClaimsOf(UserA, 1 * 1))        \* user u1, exp long past
TokJunk == <<SigSeg>>                        \* one segment, no JWT

OAuthTokens == {TokA, TokB}
States == {"", "s1"}
SentVerifiers == {"", "v2"}                  \* "" is an absent code_verifier
\* bodies of POST /oauth/code
CodeBodies == {[token |-> TokA, state |-> ""], [token |-> TokB, state |-> "s1"],
               [token |-> NoToken, state |-> "s1"]}

NoBody == [grant_type |-> "", code |-> 0, code_verifier |-> "", refresh_token |-> NoToken]
NoResp == [status |-> 0, body |-> [none |-> TRUE]]
NoHttp == [route |-> "none", status |-> 0]

\* bodies of POST /oauth/token; code 0 is an absent code
TokenBodies ==
    {[grant_type |-> "authorization_code", code |-> c, code_verifier |-> v,
      refresh_token |-> NoToken] : c \in 1..MaxCodes, v \in SentVerifiers}
    \cup {[grant_type |-> "refresh_token", code |-> 0, code_verifier |-> "",
            refresh_token |-> r] : r \in {NoToken, TokA}}
    \cup {[grant_type |-> "authorization_code", code |-> 0, code_verifier |-> "",
            refresh_token |-> NoToken]}

\* bodies of POST /oauth/token for the refresh_token grant: the token of a
\* user, a string that is no JWT, none, and one sent beside a code
RefreshBodies ==
    {[grant_type |-> "refresh_token", code |-> c, code_verifier |-> "",
      refresh_token |-> r] : c \in {0, 1}, r \in {NoToken, TokA, TokJunk}}
    \cup {[grant_type |-> "authorization_code", code |-> 1, code_verifier |-> "",
            refresh_token |-> TokA]}

\* the bodies the concurrent requests carry
RaceBodies == {b \in TokenBodies : b.code_verifier = "" /\ b.grant_type = "authorization_code"}

IdleReq == [pc |-> "idle", body |-> NoBody, resp |-> NoResp, live |-> FALSE, raced |-> FALSE]

-----------------------------------------------------------------------------
(* Initial state *)

Init ==
    /\ now = Epoch
    /\ ticks = 0
    /\ oauthCodes = <<>>
    /\ oauthPkce = <<>>
    /\ mcpSessions = <<>>
    /\ users = SeedUsers
    /\ accounts = <<>>
    /\ contacts = <<>>
    /\ opportunities = <<>>
    /\ tasks = <<>>
    /\ reminders = <<>>
    /\ tenants = SeedTenants
    /\ auditLogs = <<>>
    /\ issued = <<>>
    /\ tokenReq = [p \in Clients |-> IdleReq]
    /\ exchanges = [c \in 1..MaxCodes |-> <<>>]
    /\ sseOpened = <<>>
    /\ http = NoHttp
    /\ authInput = NoToken
    /\ authResult = [none |-> TRUE]
    /\ ProxyNotStarted

-----------------------------------------------------------------------------
(* The clock *)

Tick(d) ==
    /\ ticks < MaxTicks
    /\ now' = now + d
    /\ ticks' = ticks + 1
    /\ UNCHANGED <<oauthVars, mcpSessions, crmVars, sseOpened, http, authVars, proxyVars>>

-----------------------------------------------------------------------------
(* OAuth routes (convex/http.ts) *)

\* GET /oauth/authorize: store the PKCE challenge if state and code_challenge
\* are both present, then redirect to the sign-in application
handleAuthorize(state, codeChallenge, codeChallengeMethod) ==
    /\ oauthPkce' = IF state # "" /\ codeChallenge # ""
                    THEN PkceStore(oauthPkce,
                                   [state |-> state, codeChallenge |-> codeChallenge,
                                    codeChallengeMethod |-> codeChallengeMethod,
                                    redirectUri |-> "https://x/cb"], now)
                    ELSE oauthPkce
    /\ http' = [route |-> "GET /oauth/authorize", status |-> 302]
    /\ UNCHANGED <<now, ticks, oauthCodes, issued, tokenReq, exchanges, mcpSessions,
                   crmVars, sseOpened, authVars, proxyVars>>

\* POST /oauth/code {token, state}: mint an authorization code
handleOauthCode(token, state) ==
    /\ Len(issued) < MaxCodes
    /\ IF token = NoToken
       THEN /\ http' = [route |-> "POST /oauth/code",
                        request |-> [token |-> token, state |-> state], status |-> 400,
                        body |-> [error |-> "Token required"]]
            /\ UNCHANGED <<oauthCodes, issued>>
       ELSE LET code == Len(issued) + 1
                created == AuthCodesCreate(oauthCodes, code,
                                           [token |-> token, state |-> state], now)
            IN  /\ oauthCodes' = created
                /\ issued' = Append(issued, created[Len(created)])
                /\ http' = [route |-> "POST /oauth/code",
                            request |-> [token |-> token, state |-> state],
                            status |-> 200, body |-> [code |-> code]]
    /\ UNCHANGED <<now, ticks, oauthPkce, tokenReq, exchanges, mcpSessions, crmVars,
                   sseOpened, authVars, proxyVars>>

\* requests for code c that have been received and not yet reached the store
Awaiting(c) == {q \in Clients : tokenReq[q].pc = "awaiting" /\ tokenReq[q].body.code = c}

\* is code c in the store and unexpired
CodeLive(c) == \E i \in 1..Len(oauthCodes) :
                  oauthCodes[i].code = c /\ ~(oauthCodes[i].expiresAt < now)

\* the challenge stored for the state of code c, "" if there is none
ChallengeFor(c) ==
    LET j == FirstIndex(oauthPkce, LAMBDA r : r.state = issued[c].state)
    IN  IF j = 0 THEN "" ELSE oauthPkce[j].codeChallenge

\* the history of exchanges, with this one added when the code is one that
\* authCodes.create has returned; late: the call came after the code's
\* expiresAt; within: no more than 5 minutes after the code was created; challenge: the
\* challenge that was stored for the code's state
Logged(c, result) ==
    IF c <= Len(issued)
    THEN [exchanges EXCEPT ![c] =
             Append(@, [late |-> issued[c].expiresAt < now,
                        within |-> now - issued[c].createdAt <= 5 * 60 * 1000,
                        challenge |-> ChallengeFor(c), result |-> result])]
    ELSE exchanges

\* the response of POST /oauth/token to an authorization_code grant
ExchangeResponse(result) ==
    [status |-> IF "error" \in DOMAIN result THEN 400 ELSE 200, body |-> result]

\* the mutant of GrantResponse: the refresh token must decode as a JWT
GrantResponseValidates(body) ==
    IF body.grant_type = "refresh_token" /\ decodeJwtPayload(body.refresh_token).ok
    THEN [status |-> 200, body |-> TokenResponse(body.refresh_token)]
    ELSE [status |-> 400, body |-> [error |-> "unsupported_grant_type"]]

\* the response of POST /oauth/token when the exchange mutation is not called
GrantResponse(body) ==
    IF body.grant_type = "refresh_token" /\ body.refresh_token # NoToken
    THEN [status |-> 200, body |-> TokenResponse(body.refresh_token)]
    ELSE [status |-> 400, body |-> [error |-> "unsupported_grant_type"]]

\* POST /oauth/token, the whole handler: one request served from the body to
\* the response, the exchange mutation being its only access to the store
handleToken(body) ==
    /\ IF body.grant_type = "authorization_code" /\ body.code # 0
       THEN LET out == AuthCodesExchange(oauthCodes, oauthPkce,
                           [code |-> body.code, codeVerifier |-> body.code_verifier], now)
                resp == ExchangeResponse(out.result)
            IN  /\ body.code <= Len(issued) => Len(exchanges[body.code]) < MaxExchanges
                /\ oauthCodes' = out.oauthCodes
                /\ oauthPkce' = out.oauthPkce
                /\ exchanges' = Logged(body.code, out.result)
                /\ http' = [route |-> "POST /oauth/token", request |-> body,
                            status |-> resp.status, body |-> resp.body]
       ELSE /\ http' = [route |-> "POST /oauth/token", request |-> body,
                        status |-> GrantResponse(body).status,
                        body |-> GrantResponse(body).body]
            /\ UNCHANGED <<oauthCodes, oauthPkce, exchanges>>
    /\ UNCHANGED <<now, ticks, issued, tokenReq, mcpSessions, crmVars, sseOpened, authVars, proxyVars>>

\* POST /oauth/token, up to the call of the exchange mutation: the body is
\* parsed; a refresh_token grant and an unsupported grant are answered at once
handleTokenReceive(p, body) ==
    /\ tokenReq[p].pc \in {"idle", "done"}
    /\ IF body.grant_type = "authorization_code" /\ body.code # 0
       THEN tokenReq' = [q \in Clients |->
                  IF q = p
                  THEN [pc |-> "awaiting", body |-> body, resp |-> NoResp, live |-> FALSE,
                        raced |-> Awaiting(body.code) # {}]
                  ELSE IF q \in Awaiting(body.code)
                  THEN [tokenReq[q] EXCEPT !.raced = TRUE]
                  ELSE tokenReq[q]]
       ELSE tokenReq' = [tokenReq EXCEPT ![p] =
                [pc |-> "done", body |-> body, live |-> FALSE, raced |-> FALSE,
                 resp |-> GrantResponse(body)]]
    /\ UNCHANGED <<now, ticks, oauthCodes, oauthPkce, issued, exchanges, mcpSessions,
                   crmVars, sseOpened, http, authVars, proxyVars>>

\* POST /oauth/token, from the exchange mutation (one store transaction) to
\* the response: 400 with the error body, or 200 with the token body
handleTokenExchange(p) ==
    /\ tokenReq[p].pc = "awaiting"
    /\ LET body == tokenReq[p].body
           out == AuthCodesExchange(oauthCodes, oauthPkce,
                                    [code |-> body.code, codeVerifier |-> body.code_verifier],
                                    now)
       IN  /\ oauthCodes' = out.oauthCodes
           /\ oauthPkce' = out.oauthPkce
           /\ tokenReq' = [tokenReq EXCEPT ![p] =
                  [@ EXCEPT !.pc = "done",
                            !.live = CodeLive(body.code),
                            !.resp = ExchangeResponse(out.result)]]
    /\ UNCHANGED <<now, ticks, issued, exchanges, mcpSessions, crmVars, sseOpened, http,
                   authVars, proxyVars>>

\* authCodes.cleanup
authCodesCleanup ==
    /\ oauthCodes' = Sweep(oauthCodes, now)
    /\ UNCHANGED <<now, ticks, oauthPkce, issued, tokenReq, exchanges, mcpSessions, crmVars,
                   sseOpened, http, authVars, proxyVars>>

NextOAuth ==
    \/ \E d \in {CODE_TTL, CODE_TTL + 1} : Tick(d)
    \/ \E s \in States, ch \in {"", "h1"} : handleAuthorize(s, ch, "S256")
    \/ \E b \in CodeBodies : handleOauthCode(b.token, b.state)
    \/ \E b \in TokenBodies : handleToken(b)
    \/ authCodesCleanup

SpecOAuth == Init /\ [][NextOAuth]_vars

NextRace ==
    \/ \E d \in {CODE_TTL, CODE_TTL + 1} : Tick(d)
    \/ \E t \in OAuthTokens : handleOauthCode(t, "")
    \/ \E p \in Clients, b \in RaceBodies : handleTokenReceive(p, b)
    \/ \E p \in Clients : handleTokenExchange(p)
    \/ authCodesCleanup

SpecRace == Init /\ [][NextRace]_vars

-----------------------------------------------------------------------------
(* Claims about the authorization codes *)

IsToken(result) == "access_token" \in DOMAIN result
IsInvalidGrant(result) == "error" \in DOMAIN result /\ result.error = "invalid_grant"
InStore(c) == \E i \in 1..Len(oauthCodes) : oauthCodes[i].code = c

\* C1: of the exchanges of a code that authCodes.create returned, at most one
\* returns a token, and every exchange after the first returns invalid_grant.
C1_SingleUse ==
    \A c \in 1..Len(issued) :
        /\ Cardinality({i \in 1..Len(exchanges[c]) : IsToken(exchanges[c][i].result)}) <= 1
        /\ \A i \in 2..Len(exchanges[c]) : IsInvalidGrant(exchanges[c][i].result)

C1_Witness ==
    \E c \in 1..Len(issued) :
        /\ Len(exchanges[c]) >= 2
        /\ exchanges[c][1].result = TokenResponse(issued[c].token)
        /\ IsInvalidGrant(exchanges[c][2].result)

\* C3: an exchange that finds the record deletes it whatever the outcome: an
\* exchange made after the code's expiresAt returns invalid_grant and no token,
\* and once a code has been exchanged no record for it remains in oauthCodes.
C3_DeletedWhateverTheOutcome ==
    \A c \in 1..Len(issued) :
        /\ \A i \in 1..Len(exchanges[c]) :
              exchanges[c][i].late =>
                  IsInvalidGrant(exchanges[c][i].result) /\ ~IsToken(exchanges[c][i].result)
        /\ Len(exchanges[c]) > 0 => ~InStore(c)

C3_Witness ==
    \E c \in 1..Len(issued) :
        /\ Len(exchanges[c]) > 0
        /\ exchanges[c][1].late
        /\ exchanges[c][1].result = InvalidGrant("Authorization code expired")
        /\ ~InStore(c)

\* C5: the exchange of a live code returns the bound token whatever
\* code_verifier is supplied and whether or not a challenge is stored for the
\* code's state: the first exchange of a code, made before the code's
\* expiresAt, returns the token the code was created for, and the request that
\* made it is answered 200 with that token.
C5_VerifierIgnored ==
    /\ \A c \in 1..Len(issued) :
          (Len(exchanges[c]) > 0 /\ ~exchanges[c][1].late) =>
              exchanges[c][1].result = TokenResponse(issued[c].token)
    /\ (/\ http.route = "POST /oauth/token"
        /\ http.request.grant_type = "authorization_code"
        /\ http.request.code \in 1..Len(issued)
        /\ Len(exchanges[http.request.code]) = 1
        /\ ~exchanges[http.request.code][1].late)
       => /\ http.status = 200
          /\ http.body = TokenResponse(issued[http.request.code].token)

\* a request whose verifier does not hash to the challenge stored for the
\* code's state was answered 200 with the bound token
C5_Witness ==
    /\ http.route = "POST /oauth/token"
    /\ http.status = 200
    /\ http.request.grant_type = "authorization_code"
    /\ http.request.code_verifier = "v2"
    /\ http.request.code \in 1..Len(issued)
    /\ Len(exchanges[http.request.code]) = 1
    /\ exchanges[http.request.code][1].challenge = "h1"
    /\ S256(http.request.code_verifier) # exchanges[http.request.code][1].challenge
    /\ http.body = TokenResponse(issued[http.request.code].token)

\* C2: of two token requests for the same live code that are in flight
\* together, exactly one is answered with the bound token and the other with
\* invalid_grant; no two requests for one code are both answered with a token.
C2_RaceHasOneWinner ==
    \A p \in Clients : \A q \in Clients \ {p} :
        (/\ tokenReq[p].pc = "done" /\ tokenReq[q].pc = "done"
         /\ tokenReq[p].body.code # 0
         /\ tokenReq[p].body.code = tokenReq[q].body.code
         /\ tokenReq[p].body.code <= Len(issued))
        => /\ ~(IsToken(tokenReq[p].resp.body) /\ IsToken(tokenReq[q].resp.body))
           /\ (tokenReq[p].raced /\ tokenReq[q].raced /\ tokenReq[p].live)
              => /\ tokenReq[p].resp = [status |-> 200,
                        body |-> TokenResponse(issued[tokenReq[p].body.code].token)]
                 /\ tokenReq[q].resp.status = 400
                 /\ IsInvalidGrant(tokenReq[q].resp.body)

C2_Witness ==
    \E p \in Clients : \E q \in Clients \ {p} :
        /\ tokenReq[p].pc = "done" /\ tokenReq[q].pc = "done"
        /\ tokenReq[p].body.code = tokenReq[q].body.code
        /\ tokenReq[p].raced /\ tokenReq[q].raced
        /\ tokenReq[p].live
        /\ IsToken(tokenReq[p].resp.body)
        /\ IsInvalidGrant(tokenReq[q].resp.body)

-----------------------------------------------------------------------------
(* The CRM functions behind the tools (convex/functions/accounts.ts,        *)
(* convex/lib/utils.ts).  db is the record of the CRM tables.  A function  *)
(* result is [ok |-> TRUE, value |-> v] or the CRMError it throws.  The    *)
(* n-th account created has _id <<"accounts", n>>; deletedAt = 0 stands    *)
(* for an undefined deletedAt.                                             *)

Db == [users |-> users, accounts |-> accounts, contacts |-> contacts,
       opportunities |-> opportunities, tasks |-> tasks, reminders |-> reminders,
       tenants |-> tenants, auditLogs |-> auditLogs]

\* the transaction commits: the tables become those of db
Commit(db) ==
    /\ users' = db.users
    /\ accounts' = db.accounts
    /\ contacts' = db.contacts
    /\ opportunities' = db.opportunities
    /\ tasks' = db.tasks
    /\ reminders' = db.reminders
    /\ tenants' = db.tenants
    /\ auditLogs' = db.auditLogs

Ok(value) == [ok |-> TRUE, value |-> value]
validationError(message) == CRMError("VALIDATION_ERROR", message)

\* getAuthContext: token-based when a token is passed; otherwise Convex Auth,
\* which has no identity for a call made by an HTTP action without a token
getAuthContext(tbl, token, t) ==
    IF token # NoToken THEN getAuthContextFromToken(tbl, token, t)
    ELSE unauthorized("Authentication required")

\* logAudit
logAudit(logs, auth, action, entityType, entityId, t) ==
    Append(logs, [tenantId |-> auth.tenantId, userId |-> auth.userId, action |-> action,
                  entityType |-> entityType, entityId |-> entityId, timestamp |-> t])

\* accounts.create: the audit entry is written for "pending" and then the
\* latest pending account entry is patched with the new id
accountsCreate(db, args, token, t) ==
    The({IF ~auth.ok THEN [db |-> db, result |-> auth]
         ELSE IF args.name = ""
         THEN [db |-> db,
               result |-> CRMErrorWith("VALIDATION_ERROR", "Invalid account data", "flattened")]
         ELSE LET accountId == <<"accounts", Len(db.accounts) + 1>>
                  account == [_id |-> accountId, tenantId |-> auth.tenantId,
                              name |-> args.name, createdBy |-> auth.userId,
                              createdAt |-> t, updatedAt |-> t, deletedAt |-> 0]
              IN  The({LET pending == {i \in 1..Len(logged) :
                                         /\ logged[i].entityType = "account"
                                         /\ logged[i].entityId = <<"pending">>}
                       IN  [db |-> [db EXCEPT
                                      !.accounts = Append(@, account),
                                      !.auditLogs =
                                          [logged EXCEPT
                                             ![CHOOSE i \in pending :
                                                 \A j \in pending : j <= i].entityId =
                                                 accountId]],
                            result |-> Ok(account)] :
                       logged \in {logAudit(db.auditLogs, auth, "create", "account",
                                            <<"pending">>, t)}}) :
         auth \in {getAuthContext(db.users, token, t)}})

\* items.slice(0, n)
Slice(items, n) == IF Len(items) > n THEN SubSeq(items, 1, n) ELSE items

\* the mutant of paginateResults: a page that is exactly full claims more
paginateResultsFullHasMore(items, limit) ==
    LET hasMore == Len(items) >= limit
        paginatedItems == IF hasMore THEN Slice(items, limit) ELSE items
    IN  [items |-> paginatedItems, hasMore |-> hasMore,
         nextCursor |-> IF hasMore THEN paginatedItems[Len(paginatedItems)]._id ELSE <<>>]

\* paginateResults
paginateResults(items, limit) ==
    LET hasMore == Len(items) > limit
        paginatedItems == IF hasMore THEN Slice(items, limit) ELSE items
    IN  [items |-> paginatedItems, hasMore |-> hasMore,
         nextCursor |-> IF hasMore THEN paginatedItems[Len(paginatedItems)]._id ELSE <<>>]

\* listAccountsFilterSchema.safeParse(args) fails: limit is below 1 or above 100
InvalidFilter(args) == "limit" \in DOMAIN args /\ (args.limit < 1 \/ args.limit > 100)

\* accounts.list: the accounts of the tenant, without the deleted ones unless
\* includeDeleted is passed as true
Listed(tbl, auth, args) ==
    SelectSeq(SelectSeq(tbl, LAMBDA a : a.tenantId = auth.tenantId),
              LAMBDA a : ("includeDeleted" \in DOMAIN args /\ args.includeDeleted)
                         \/ a.deletedAt = 0)

\* filtered.slice(cursorIndex + 1) when the cursor is passed and found
AfterCursor(filtered, args) ==
    The({IF "cursor" \in DOMAIN args /\ cursorIndex # 0
         THEN SubSeq(filtered, cursorIndex + 1, Len(filtered))
         ELSE filtered :
         cursorIndex \in {IF "cursor" \in DOMAIN args
                          THEN FirstIndex(filtered, LAMBDA a : a._id = args.cursor)
                          ELSE 0}})

\* accounts.list called without the industry and ownerId filters
accountsList(db, args, token, t) ==
    The({IF ~auth.ok THEN [db |-> db, result |-> auth]
         ELSE IF InvalidFilter(args)
         THEN [db |-> db,
               result |-> CRMErrorWith("VALIDATION_ERROR", "Invalid filter parameters",
                                       "flattened")]
         ELSE The({[db |-> db,
                    result |-> Ok(paginateResults(
                        Slice(AfterCursor(Listed(db.accounts, auth, args), args), limit + 1),
                        limit))] :
                   limit \in {IF "limit" \in DOMAIN args THEN args.limit ELSE 20}}) :
         auth \in {getAuthContext(db.users, token, t)}})

-----------------------------------------------------------------------------
(* get, update, remove and restore of the five entity modules             *)
(* (convex/functions/accounts.ts, contacts.ts, opportunities.ts, tasks.ts, *)
(* reminders.ts).  The handlers of one operation differ in the entity name *)
(* and in the checks named below, so each operation is one operator over   *)
(* the table.  An optional argument that is not passed is a field the args *)
(* record does not have.                                                   *)

EntityName ==
    [accounts |-> "Account", contacts |-> "Contact", opportunities |-> "Opportunity",
     tasks |-> "Task", reminders |-> "Reminder"]
AuditEntityType ==
    [accounts |-> "account", contacts |-> "contact", opportunities |-> "opportunity",
     tasks |-> "task", reminders |-> "reminder"]
EntityTables == DOMAIN EntityName

\* notFound(entity), called without an id: `${entity} not found`
notFound(entity) ==
    CRMError("NOT_FOUND",
             [Account |-> "Account not found", Contact |-> "Contact not found",
              Opportunity |-> "Opportunity not found", Task |-> "Task not found",
              Reminder |-> "Reminder not found", Tenant |-> "Tenant not found",
              User |-> "User not found"][entity])

\* invalidStage(stage, validStages)
invalidStage(stage, validStages) ==
    CRMErrorWith("INVALID_STAGE", "Invalid stage", [stage |-> stage, validStages |-> validStages])

\* hasDependencies(entity, dependencyType, count)
hasDependencies(entity, dependencyType, count) ==
    CRMErrorWith("DELETION_HAS_DEPENDENCIES", "Cannot delete: has related records",
                 [dependencyType |-> dependencyType, count |-> count])

\* ctx.db.get(id) in a table: the document, or null
null == [null |-> TRUE]
IsNull(doc) == "null" \in DOMAIN doc
Get(tbl, id) ==
    The({IF i = 0 THEN null ELSE tbl[i] : i \in {FirstIndex(tbl, LAMBDA d : d._id = id)}})

\* ctx.db.patch(id, fields)
Merge(doc, fields) ==
    [f \in DOMAIN doc \cup DOMAIN fields |-> IF f \in DOMAIN fields THEN fields[f] ELSE doc[f]]
Patch(tbl, id, fields) ==
    [i \in 1..Len(tbl) |-> IF tbl[i]._id = id THEN Merge(tbl[i], fields) ELSE tbl[i]]

\* the mutant of verifyTenantAccess: another tenant's entity is refused as forbidden
verifyTenantAccessForbids(entity, auth, entityName) ==
    IF IsNull(entity) THEN notFound(entityName)
    ELSE IF entity.tenantId # auth.tenantId THEN forbidden("Permission denied")
    ELSE Ok(entity)

\* verifyTenantAccess
verifyTenantAccess(entity, auth, entityName) ==
    IF IsNull(entity) THEN notFound(entityName)
    ELSE IF entity.tenantId # auth.tenantId THEN notFound(entityName)
    ELSE Ok(entity)

\* get
entityGet(db, table, args, token, t) ==
    The({IF ~auth.ok THEN [db |-> db, result |-> auth]
         ELSE [db |-> db,
               result |-> verifyTenantAccess(Get(db[table], args.id), auth, EntityName[table])] :
         auth \in {getAuthContext(db.users, token, t)}})

\* update<Entity>Schema.safeParse(updates) fails: a text of minimum length 1 is empty
InvalidData(table, updates) ==
    \E f \in DOMAIN updates \cap
             [accounts |-> {"name"}, contacts |-> {"firstName", "lastName"},
              opportunities |-> {"name", "stage"}, tasks |-> {"title"},
              reminders |-> {"title"}][table] : updates[f] = ""

InvalidDataMessage ==
    [accounts |-> "Invalid account data", contacts |-> "Invalid contact data",
     opportunities |-> "Invalid opportunity data", tasks |-> "Invalid task data",
     reminders |-> "Invalid reminder data"]

\* verifyLinkedEntity of tasks.ts and reminders.ts
verifyLinkedEntity(db, auth, entityType, entityId) ==
    LET linked == [account |-> "accounts", contact |-> "contacts",
                   opportunity |-> "opportunities", task |-> "tasks"]
        entity == Get(db[linked[entityType]], entityId)
    IN  IF IsNull(entity) \/ entity.tenantId # auth.tenantId
        THEN notFound(EntityName[linked[entityType]])
        ELSE IF entity.deletedAt # 0 THEN notFound(EntityName[linked[entityType]])
        ELSE Ok(entity)

\* update, between the schema test and the patch: the stage and the contact of
\* an opportunity, the linked entity of a task or reminder
UpdateChecks(db, table, updates, auth) ==
    IF table = "opportunities"
    THEN LET tenant == Get(db.tenants, auth.tenantId)
             staged == IF "stage" \in DOMAIN updates
                       THEN IF IsNull(tenant) THEN notFound("Tenant")
                            ELSE IF \A k \in 1..Len(tenant.settings.opportunityStages) :
                                       tenant.settings.opportunityStages[k] # updates.stage
                            THEN invalidStage(updates.stage, tenant.settings.opportunityStages)
                            ELSE Ok(TRUE)
                       ELSE Ok(TRUE)
         IN  IF ~staged.ok THEN staged
             ELSE IF "contactId" \in DOMAIN updates
             THEN LET contact == Get(db.contacts, updates.contactId)
                      access == verifyTenantAccess(contact, auth, "Contact")
                  IN  IF ~access.ok THEN access
                      ELSE IF contact.deletedAt # 0 THEN notFound("Contact")
                      ELSE Ok(TRUE)
             ELSE Ok(TRUE)
    ELSE IF table \in {"tasks", "reminders"}
            /\ {"linkedEntityType", "linkedEntityId"} \subseteq DOMAIN updates
    THEN verifyLinkedEntity(db, auth, updates.linkedEntityType, updates.linkedEntityId)
    ELSE Ok(TRUE)

\* stage.startsWith("closed_")
ClosedStages == {"closed_won", "closed_lost"}

\* updateData
UpdateData(table, updates, t) ==
    Merge(Merge([updatedAt |-> t], updates),
          IF table = "opportunities" /\ "stage" \in DOMAIN updates
             /\ updates.stage \in ClosedStages
          THEN [closedAt |-> t]
          ELSE IF table = "tasks" /\ "status" \in DOMAIN updates /\ updates.status = "completed"
          THEN [completedAt |-> t]
          ELSE IF table = "reminders" /\ "isCompleted" \in DOMAIN updates /\ updates.isCompleted
          THEN [completedAt |-> t]
          ELSE [updatedAt |-> t])

\* the arguments but id
Updates(args) == [f \in DOMAIN args \ {"id"} |-> args[f]]

\* update
entityUpdate(db, table, args, token, t) ==
    The({IF ~auth.ok THEN [db |-> db, result |-> auth]
         ELSE The({IF ~access.ok THEN [db |-> db, result |-> access]
                   ELSE IF access.value.deletedAt # 0
                   THEN [db |-> db, result |-> notFound(EntityName[table])]
                   ELSE IF InvalidData(table, Updates(args))
                   THEN [db |-> db,
                         result |-> CRMErrorWith("VALIDATION_ERROR", InvalidDataMessage[table],
                                                 "flattened")]
                   ELSE The({IF ~checked.ok THEN [db |-> db, result |-> checked]
                             ELSE The({[db |-> written,
                                        result |-> Ok(Get(written[table], args.id))] :
                                       written \in
                                         {[db EXCEPT
                                             ![table] = Patch(@, args.id,
                                                              UpdateData(table, Updates(args), t)),
                                             !.auditLogs = logAudit(@, auth, "update",
                                                                    AuditEntityType[table],
                                                                    args.id, t)]}}) :
                             checked \in {UpdateChecks(db, table, Updates(args), auth)}}) :
                   access \in {verifyTenantAccess(Get(db[table], args.id), auth,
                                                  EntityName[table])}}) :
         auth \in {getAuthContext(db.users, token, t)}})

\* createOpportunitySchema.safeParse(args) fails: name or stage is empty
InvalidOpportunity(args) == args.name = "" \/ args.stage = ""

\* opportunities.create, between the schema test and the insert: the account,
\* the contact if one is passed, the stage
CreateChecks(db, args, auth) ==
    LET account == Get(db.accounts, args.accountId)
        tenant == Get(db.tenants, auth.tenantId)
    IN  IF ~verifyTenantAccess(account, auth, "Account").ok
        THEN verifyTenantAccess(account, auth, "Account")
        ELSE IF account.deletedAt # 0 THEN notFound("Account")
        ELSE IF /\ "contactId" \in DOMAIN args
                /\ ~verifyTenantAccess(Get(db.contacts, args.contactId), auth, "Contact").ok
        THEN verifyTenantAccess(Get(db.contacts, args.contactId), auth, "Contact")
        ELSE IF "contactId" \in DOMAIN args /\ Get(db.contacts, args.contactId).deletedAt # 0
        THEN notFound("Contact")
        ELSE IF IsNull(tenant) THEN notFound("Tenant")
        ELSE IF \A k \in 1..Len(tenant.settings.opportunityStages) :
                   tenant.settings.opportunityStages[k] # args.stage
        THEN invalidStage(args.stage, tenant.settings.opportunityStages)
        ELSE Ok(tenant)

\* opportunities.create, called with accountId, name, stage and at most
\* contactId and amount of the optional arguments: the audit entry is written for
\* "pending" and then the latest pending opportunity entry is patched
opportunitiesCreate(db, args, token, t) ==
    The({IF ~auth.ok THEN [db |-> db, result |-> auth]
         ELSE IF InvalidOpportunity(args)
         THEN [db |-> db,
               result |-> CRMErrorWith("VALIDATION_ERROR", "Invalid opportunity data",
                                       "flattened")]
         ELSE The({IF ~checked.ok THEN [db |-> db, result |-> checked]
                   ELSE LET opportunityId == <<"opportunities", Len(db.opportunities) + 1>>
                            opportunity ==
                                Merge([_id |-> opportunityId, tenantId |-> auth.tenantId,
                                       accountId |-> args.accountId, name |-> args.name,
                                       stage |-> args.stage,
                                       currency |-> checked.value.settings.defaultCurrency,
                                       createdBy |-> auth.userId, createdAt |-> t,
                                       updatedAt |-> t, deletedAt |-> 0],
                                      Merge(IF "contactId" \in DOMAIN args
                                            THEN [contactId |-> args.contactId] ELSE <<>>,
                                            IF "amount" \in DOMAIN args
                                            THEN [amount |-> args.amount] ELSE <<>>))
                        IN  The({LET pending == {i \in 1..Len(logged) :
                                                   /\ logged[i].entityType = "opportunity"
                                                   /\ logged[i].entityId = <<"pending">>}
                                 IN  [db |-> [db EXCEPT
                                                !.opportunities = Append(@, opportunity),
                                                !.auditLogs =
                                                    [logged EXCEPT
                                                       ![CHOOSE i \in pending :
                                                           \A j \in pending : j <= i].entityId =
                                                           opportunityId]],
                                      result |-> Ok(opportunity)] :
                                 logged \in {logAudit(db.auditLogs, auth, "create",
                                                      "opportunity", <<"pending">>, t)}}) :
                   checked \in {CreateChecks(db, args, auth)}}) :
         auth \in {getAuthContext(db.users, token, t)}})

\* o.amount ?? 0
AmountOf(o) == IF "amount" \in DOMAIN o THEN o.amount ELSE 0

\* opps.reduce((sum, o) => sum + (o.amount ?? 0), 0)
RECURSIVE SumAmounts(_)
SumAmounts(opps) ==
    IF opps = <<>> THEN 0 ELSE SumAmounts(SubSeq(opps, 1, Len(opps) - 1)) + AmountOf(opps[Len(opps)])

\* summary.reduce((sum, s) => sum + s.totalAmount, 0)
RECURSIVE SumTotals(_)
SumTotals(summary) ==
    IF summary = <<>> THEN 0
    ELSE SumTotals(SubSeq(summary, 1, Len(summary) - 1)) + summary[Len(summary)].totalAmount

\* the summary row of one stage (weightedAmount, a sum of amount times
\* probability / 100, is left out)
StageSummary(opps, stage, currency) ==
    The({[stage |-> stage, count |-> Len(stageOpps), totalAmount |-> SumAmounts(stageOpps),
          currency |-> currency] :
         stageOpps \in {SelectSeq(opps, LAMBDA o : o.stage = stage)}})

\* opportunities.getPipelineSummary
getPipelineSummary(db, args, token, t) ==
    The({IF ~auth.ok THEN [db |-> db, result |-> auth]
         ELSE The({IF IsNull(tenant) THEN [db |-> db, result |-> notFound("Tenant")]
                   ELSE The({[db |-> db,
                              result |-> Ok([stages |-> summary,
                                             totals |-> [count |-> Len(opps),
                                                         totalAmount |-> SumTotals(summary),
                                                         currency |->
                                                             tenant.settings.defaultCurrency]])] :
                             opps \in {SelectSeq(db.opportunities,
                                                 LAMBDA o : /\ o.tenantId = auth.tenantId
                                                            /\ o.deletedAt = 0)},
                             summary \in
                               {[k \in 1..Len(tenant.settings.opportunityStages) |->
                                   StageSummary(
                                       SelectSeq(db.opportunities,
                                                 LAMBDA o : /\ o.tenantId = auth.tenantId
                                                            /\ o.deletedAt = 0),
                                       tenant.settings.opportunityStages[k],
                                       tenant.settings.defaultCurrency)]}}) :
                   tenant \in {Get(db.tenants, auth.tenantId)}}) :
         auth \in {getAuthContext(db.users, token, t)}})

\* createContactSchema.safeParse(args) fails: firstName or lastName is empty
InvalidContact(args) == args.firstName = "" \/ args.lastName = ""

\* the mutant of contactsCreate: the account's deletedAt is not tested
contactsCreateUnderDeleted(db, args, token, t) ==
    The({IF ~auth.ok THEN [db |-> db, result |-> auth]
         ELSE IF InvalidContact(args)
         THEN [db |-> db,
               result |-> CRMErrorWith("VALIDATION_ERROR", "Invalid contact data", "flattened")]
         ELSE The({IF ~access.ok THEN [db |-> db, result |-> access]
                   ELSE LET contactId == <<"contacts", Len(db.contacts) + 1>>
                            contact == [_id |-> contactId, tenantId |-> auth.tenantId,
                                        accountId |-> args.accountId,
                                        firstName |-> args.firstName,
                                        lastName |-> args.lastName, isPrimary |-> FALSE,
                                        createdBy |-> auth.userId, createdAt |-> t,
                                        updatedAt |-> t, deletedAt |-> 0]
                        IN  The({LET pending == {i \in 1..Len(logged) :
                                                   /\ logged[i].entityType = "contact"
                                                   /\ logged[i].entityId = <<"pending">>}
                                 IN  [db |-> [db EXCEPT
                                                !.contacts = Append(@, contact),
                                                !.auditLogs =
                                                    [logged EXCEPT
                                                       ![CHOOSE i \in pending :
                                                           \A j \in pending : j <= i].entityId =
                                                           contactId]],
                                      result |-> Ok(contact)] :
                                 logged \in {logAudit(db.auditLogs, auth, "create", "contact",
                                                      <<"pending">>, t)}}) :
                   access \in {verifyTenantAccess(Get(db.accounts, args.accountId), auth,
                                                  "Account")}}) :
         auth \in {getAuthContext(db.users, token, t)}})

\* contacts.create, called with accountId, firstName and lastName: the audit
\* entry is written for "pending" and then the latest pending contact entry
\* is patched with the new id
contactsCreate(db, args, token, t) ==
    The({IF ~auth.ok THEN [db |-> db, result |-> auth]
         ELSE IF InvalidContact(args)
         THEN [db |-> db,
               result |-> CRMErrorWith("VALIDATION_ERROR", "Invalid contact data", "flattened")]
         ELSE The({IF ~access.ok THEN [db |-> db, result |-> access]
                   ELSE IF access.value.deletedAt # 0
                   THEN [db |-> db, result |-> notFound("Account")]
                   ELSE LET contactId == <<"contacts", Len(db.contacts) + 1>>
                            contact == [_id |-> contactId, tenantId |-> auth.tenantId,
                                        accountId |-> args.accountId,
                                        firstName |-> args.firstName,
                                        lastName |-> args.lastName, isPrimary |-> FALSE,
                                        createdBy |-> auth.userId, createdAt |-> t,
                                        updatedAt |-> t, deletedAt |-> 0]
                        IN  The({LET pending == {i \in 1..Len(logged) :
                                                   /\ logged[i].entityType = "contact"
                                                   /\ logged[i].entityId = <<"pending">>}
                                 IN  [db |-> [db EXCEPT
                                                !.contacts = Append(@, contact),
                                                !.auditLogs =
                                                    [logged EXCEPT
                                                       ![CHOOSE i \in pending :
                                                           \A j \in pending : j <= i].entityId =
                                                           contactId]],
                                      result |-> Ok(contact)] :
                                 logged \in {logAudit(db.auditLogs, auth, "create", "contact",
                                                      <<"pending">>, t)}}) :
                   access \in {verifyTenantAccess(Get(db.accounts, args.accountId), auth,
                                                  "Account")}}) :
         auth \in {getAuthContext(db.users, token, t)}})

\* the non-deleted documents of a table that belong to an account
Dependents(tbl, accountId) ==
    {i \in 1..Len(tbl) : tbl[i].accountId = accountId /\ tbl[i].deletedAt = 0}

\* the cascade of accounts.remove: each document is patched as deleted
Cascade(tbl, deps, t) ==
    [i \in 1..Len(tbl) |->
        IF i \in deps THEN Merge(tbl[i], [deletedAt |-> t, updatedAt |-> t]) ELSE tbl[i]]

\* remove; force is an argument of accounts.remove only
entityRemove(db, table, args, token, t) ==
    The({IF ~auth.ok THEN [db |-> db, result |-> auth]
         ELSE The({IF ~access.ok THEN [db |-> db, result |-> access]
                   ELSE IF access.value.deletedAt # 0
                   THEN [db |-> db, result |-> notFound(EntityName[table])]
                   ELSE LET force == "force" \in DOMAIN args /\ args.force
                            cs == IF table = "accounts"
                                  THEN Dependents(db.contacts, args.id) ELSE {}
                            os == IF table = "accounts"
                                  THEN Dependents(db.opportunities, args.id) ELSE {}
                            totalDeps == Cardinality(cs) + Cardinality(os)
                        IN  IF totalDeps > 0 /\ ~force
                            THEN [db |-> db,
                                  result |-> hasDependencies("Account", "related records",
                                                             totalDeps)]
                            ELSE [db |-> [db EXCEPT
                                     !.contacts = IF force THEN Cascade(@, cs, t) ELSE @,
                                     !.opportunities = IF force THEN Cascade(@, os, t) ELSE @,
                                     ![table] = Patch(@, args.id,
                                                      [deletedAt |-> t, updatedAt |-> t]),
                                     !.auditLogs = logAudit(@, auth, "delete",
                                                            AuditEntityType[table], args.id, t)],
                                  result |-> Ok([success |-> TRUE])] :
                   access \in {verifyTenantAccess(Get(db[table], args.id), auth,
                                                  EntityName[table])}}) :
         auth \in {getAuthContext(db.users, token, t)}})

NotDeletedMessage ==
    [accounts |-> "Account is not deleted", contacts |-> "Contact is not deleted",
     opportunities |-> "Opportunity is not deleted", tasks |-> "Task is not deleted",
     reminders |-> "Reminder is not deleted"]

\* restore of contacts.ts and opportunities.ts: the parent account is deleted
ParentDeleted(db, table, entity) ==
    /\ table \in {"contacts", "opportunities"}
    /\ LET account == Get(db.accounts, entity.accountId)
       IN  IsNull(account) \/ account.deletedAt # 0

\* the mutant of entityRestore: an entity that is not deleted is restored too
entityRestoreAny(db, table, args, token, t) ==
    The({IF ~auth.ok THEN [db |-> db, result |-> auth]
         ELSE The({IF IsNull(entity) \/ entity.tenantId # auth.tenantId
                   THEN [db |-> db, result |-> notFound(EntityName[table])]
                   ELSE The({[db |-> written, result |-> Ok(Get(written[table], args.id))] :
                             written \in
                               {[db EXCEPT
                                   ![table] = Patch(@, args.id,
                                                    [deletedAt |-> 0, updatedAt |-> t]),
                                   !.auditLogs = logAudit(@, auth, "restore",
                                                          AuditEntityType[table],
                                                          args.id, t)]}}) :
                   entity \in {Get(db[table], args.id)}}) :
         auth \in {getAuthContext(db.users, token, t)}})

\* restore
entityRestore(db, table, args, token, t) ==
    The({IF ~auth.ok THEN [db |-> db, result |-> auth]
         ELSE The({IF IsNull(entity) \/ entity.tenantId # auth.tenantId
                   THEN [db |-> db, result |-> notFound(EntityName[table])]
                   ELSE IF entity.deletedAt = 0
                   THEN [db |-> db, result |-> validationError(NotDeletedMessage[table])]
                   ELSE IF ParentDeleted(db, table, entity)
                   THEN [db |-> db,
                         result |-> validationError(
                             [contacts |-> "Cannot restore contact: parent account is deleted",
                              opportunities |->
                                  "Cannot restore opportunity: parent account is deleted"][table])]
                   ELSE The({[db |-> written, result |-> Ok(Get(written[table], args.id))] :
                             written \in
                               {[db EXCEPT
                                   ![table] = Patch(@, args.id,
                                                    [deletedAt |-> 0, updatedAt |-> t]),
                                   !.auditLogs = logAudit(@, auth, "restore",
                                                          AuditEntityType[table],
                                                          args.id, t)]}}) :
                   entity \in {Get(db[table], args.id)}}) :
         auth \in {getAuthContext(db.users, token, t)}})

-----------------------------------------------------------------------------
(* The admin-only functions (convex/functions/users.ts, tenants.ts).  A     *)
(* user id is a string; the id of the n-th user inserted is UserIds[n].     *)

\* throw new Error(message)
PlainError(message) == [ok |-> FALSE, class |-> "Error", message |-> message]

\* duplicateInvite(email)
duplicateInvite(email) ==
    CRMError("DUPLICATE_INVITE", "User with this email already exists in this tenant")

\* requireAdmin
requireAdmin(auth) ==
    IF auth.userRole # "admin" THEN forbidden("Admin role required") ELSE Ok(TRUE)

\* getAuthContext followed by requireAdmin: the context, or the error thrown
AdminContext(tbl, token, t) ==
    The({IF ~auth.ok THEN auth
         ELSE IF ~requireAdmin(auth).ok THEN requireAdmin(auth)
         ELSE auth :
         auth \in {getAuthContext(tbl, token, t)}})

UserIds == <<"u1", "u2", "u3", "u4", "u5", "u6", "u7">>

\* inviteUserSchema: email is an address, name has 1 to 255 characters
InvalidEmails == {"", "nobody"}
InvalidUserData(args) == args.email \in InvalidEmails \/ args.name = ""

\* the active admins of a tenant
ActiveAdmins(tbl, tenantId) ==
    {i \in 1..Len(tbl) : /\ tbl[i].tenantId = tenantId
                         /\ tbl[i].role = "admin"
                         /\ tbl[i].isActive}

\* users.invite: the audit entry is written for "pending" and then the latest
\* pending user entry is patched with the new id
usersInvite(db, args, token, t) ==
    The({IF ~auth.ok THEN [db |-> db, result |-> auth]
         ELSE IF InvalidUserData(args)
         THEN [db |-> db,
               result |-> CRMErrorWith("VALIDATION_ERROR", "Invalid user data", "flattened")]
         ELSE IF \E i \in 1..Len(db.users) : /\ db.users[i].tenantId = auth.tenantId
                                             /\ db.users[i].email = args.email
         THEN [db |-> db, result |-> duplicateInvite(args.email)]
         ELSE IF FirstByEmail(db.users, args.email) # 0
         THEN [db |-> db,
               result |-> validationError(
                   "This email is already registered with another organization")]
         ELSE LET userId == UserIds[Len(db.users) + 1]
                  user == [_id |-> userId, tenantId |-> auth.tenantId, email |-> args.email,
                           name |-> args.name,
                           role |-> IF "role" \in DOMAIN args THEN args.role ELSE "member",
                           isActive |-> FALSE, invitedBy |-> auth.userId,
                           createdAt |-> t, updatedAt |-> t]
              IN  The({LET pending == {i \in 1..Len(logged) :
                                         /\ logged[i].entityType = "user"
                                         /\ logged[i].entityId = <<"pending">>}
                       IN  [db |-> [db EXCEPT
                                      !.users = Append(@, user),
                                      !.auditLogs =
                                          [logged EXCEPT
                                             ![CHOOSE i \in pending :
                                                 \A j \in pending : j <= i].entityId =
                                                 <<userId>>]],
                            result |-> Ok(user)] :
                       logged \in {logAudit(db.auditLogs, auth, "create", "user",
                                            <<"pending">>, t)}}) :
         auth \in {AdminContext(db.users, token, t)}})

\* the mutant of usersDeactivate: neither the caller's own account nor the
\* last admin is refused
usersDeactivateAnyone(db, args, token, t) ==
    The({IF ~auth.ok THEN [db |-> db, result |-> auth]
         ELSE The({IF IsNull(user) THEN [db |-> db, result |-> notFound("User")]
                   ELSE IF user.tenantId # auth.tenantId
                   THEN [db |-> db, result |-> notFound("User")]
                   ELSE The({[db |-> [db EXCEPT
                                        !.users = patched,
                                        !.auditLogs = logAudit(@, auth, "update", "user",
                                                               <<args.id>>, t)],
                              result |-> Ok(Get(patched, args.id))] :
                             patched \in {Patch(db.users, args.id,
                                                [isActive |-> FALSE, updatedAt |-> t])}}) :
                   user \in {Get(db.users, args.id)}}) :
         auth \in {AdminContext(db.users, token, t)}})

\* users.deactivate
usersDeactivate(db, args, token, t) ==
    The({IF ~auth.ok THEN [db |-> db, result |-> auth]
         ELSE The({IF IsNull(user) THEN [db |-> db, result |-> notFound("User")]
                   ELSE IF user.tenantId # auth.tenantId
                   THEN [db |-> db, result |-> notFound("User")]
                   ELSE IF user._id = auth.userId
                   THEN [db |-> db,
                         result |-> PlainError("Cannot deactivate your own account")]
                   ELSE IF /\ user.role = "admin"
                           /\ Cardinality(ActiveAdmins(db.users, auth.tenantId)) <= 1
                   THEN [db |-> db, result |-> PlainError("Cannot deactivate the last admin")]
                   ELSE The({[db |-> [db EXCEPT
                                        !.users = patched,
                                        !.auditLogs = logAudit(@, auth, "update", "user",
                                                               <<args.id>>, t)],
                              result |-> Ok(Get(patched, args.id))] :
                             patched \in {Patch(db.users, args.id,
                                                [isActive |-> FALSE, updatedAt |-> t])}}) :
                   user \in {Get(db.users, args.id)}}) :
         auth \in {AdminContext(db.users, token, t)}})

\* users.reactivate
usersReactivate(db, args, token, t) ==
    The({IF ~auth.ok THEN [db |-> db, result |-> auth]
         ELSE The({IF IsNull(user) THEN [db |-> db, result |-> notFound("User")]
                   ELSE IF user.tenantId # auth.tenantId
                   THEN [db |-> db, result |-> notFound("User")]
                   ELSE IF user.isActive
                   THEN [db |-> db, result |-> validationError("User is already active")]
                   ELSE The({[db |-> [db EXCEPT
                                        !.users = patched,
                                        !.auditLogs = logAudit(@, auth, "update", "user",
                                                               <<args.id>>, t)],
                              result |-> Ok(Get(patched, args.id))] :
                             patched \in {Patch(db.users, args.id,
                                                [isActive |-> TRUE, updatedAt |-> t])}}) :
                   user \in {Get(db.users, args.id)}}) :
         auth \in {AdminContext(db.users, token, t)}})

\* users.updateRole
usersUpdateRole(db, args, token, t) ==
    The({IF ~auth.ok THEN [db |-> db, result |-> auth]
         ELSE The({IF IsNull(user) THEN [db |-> db, result |-> notFound("User")]
                   ELSE IF user.tenantId # auth.tenantId
                   THEN [db |-> db, result |-> notFound("User")]
                   ELSE IF user._id = auth.userId
                   THEN [db |-> db, result |-> forbidden("Cannot change your own role")]
                   ELSE IF /\ user.role = "admin"
                           /\ args.role = "member"
                           /\ Cardinality(ActiveAdmins(db.users, auth.tenantId)) <= 1
                   THEN [db |-> db, result |-> PlainError("Cannot demote the last admin")]
                   ELSE The({[db |-> [db EXCEPT
                                        !.users = patched,
                                        !.auditLogs = logAudit(@, auth, "update", "user",
                                                               <<args.id>>, t)],
                              result |-> Ok(Get(patched, args.id))] :
                             patched \in {Patch(db.users, args.id,
                                                [role |-> args.role, updatedAt |-> t])}}) :
                   user \in {Get(db.users, args.id)}}) :
         auth \in {AdminContext(db.users, token, t)}})

\* updateTenantSchema: name has 1 to 255 characters, opportunityStages is a
\* non-empty array of non-empty strings
InvalidTenantData(args) ==
    \/ "name" \in DOMAIN args /\ args.name = ""
    \/ /\ "settings" \in DOMAIN args
       /\ "opportunityStages" \in DOMAIN args.settings
       /\ \/ args.settings.opportunityStages = <<>>
          \/ \E k \in 1..Len(args.settings.opportunityStages) :
                args.settings.opportunityStages[k] = ""

\* tenants.update: updateData; the settings passed are merged into the
\* tenant's
TenantUpdateData(tenant, args, t) ==
    Merge(Merge([updatedAt |-> t],
                IF "name" \in DOMAIN args THEN [name |-> args.name] ELSE <<>>),
          IF "settings" \in DOMAIN args
          THEN [settings |-> Merge(tenant.settings, args.settings)] ELSE <<>>)

\* tenants.update
tenantsUpdate(db, args, token, t) ==
    The({IF ~auth.ok THEN [db |-> db, result |-> auth]
         ELSE IF InvalidTenantData(args)
         THEN [db |-> db,
               result |-> CRMErrorWith("VALIDATION_ERROR", "Invalid tenant data", "flattened")]
         ELSE The({IF IsNull(tenant) THEN [db |-> db, result |-> notFound("Tenant")]
                   ELSE The({[db |-> [db EXCEPT
                                        !.tenants = patched,
                                        !.auditLogs = logAudit(@, auth, "update", "tenant",
                                                               <<auth.tenantId>>, t)],
                              result |-> Ok(Get(patched, auth.tenantId))] :
                             patched \in {Patch(db.tenants, auth.tenantId,
                                                TenantUpdateData(tenant, args, t))}}) :
                   tenant \in {Get(db.tenants, auth.tenantId)}}) :
         auth \in {AdminContext(db.users, token, t)}})

-----------------------------------------------------------------------------
(* The JSON-RPC dispatcher (convex/mcp/server.ts) *)

\* the names of the tool catalog TOOLS, in order
TOOLS ==
    <<"create_account", "get_account", "list_accounts", "update_account",
      "delete_account", "restore_account", "create_contact", "get_contact",
      "list_contacts", "update_contact", "delete_contact", "restore_contact",
      "create_opportunity", "get_opportunity", "list_opportunities",
      "update_opportunity", "delete_opportunity", "restore_opportunity",
      "create_task", "get_task", "list_tasks", "update_task", "delete_task",
      "restore_task", "create_reminder", "get_reminder", "list_reminders",
      "update_reminder", "delete_reminder", "restore_reminder", "search_crm",
      "get_pipeline_summary", "get_activity_feed", "get_overdue_items", "get_tenant",
      "update_tenant", "invite_user", "list_users", "deactivate_user",
      "reactivate_user">>

\* a method is the sequence of its '/'-separated parts; <<>> is an absent method
Initialize == <<"initialize">>
ToolsList == <<"tools", "list">>
ToolsCall == <<"tools", "call">>
Ping == <<"ping">>

\* what an action catches when a mutation or query it runs throws: the error
\* reaches the action as a plain Error carrying the message, no longer an
\* instance of the action's CRMError class
Rethrown(error) == [error EXCEPT !.class = "Error"]

\* ctx.runMutation / ctx.runQuery seen from the action
RunFunction(out) ==
    IF out.result.ok THEN out ELSE [db |-> out.db, result |-> Rethrown(out.result)]

\* formatError: instanceof CRMError, else instanceof Error; a details that is
\* undefined is a field the formatted object does not have
formatError(error) ==
    IF error.class = "CRMError"
    THEN IF "details" \in DOMAIN error
         THEN [code |-> error.code, message |-> error.message, details |-> error.details]
         ELSE [code |-> error.code, message |-> error.message]
    ELSE [code |-> "INTERNAL_ERROR", message |-> error.message]

\* the switch of executeToolCall: the function each tool name is routed to,
\* for the functions modelled here
ToolRoutes ==
    [create_account |-> <<"accounts", "create">>, list_accounts |-> <<"accounts", "list">>,
     get_account |-> <<"accounts", "get">>, update_account |-> <<"accounts", "update">>,
     delete_account |-> <<"accounts", "remove">>, restore_account |-> <<"accounts", "restore">>,
     get_contact |-> <<"contacts", "get">>, update_contact |-> <<"contacts", "update">>,
     delete_contact |-> <<"contacts", "remove">>, restore_contact |-> <<"contacts", "restore">>,
     get_opportunity |-> <<"opportunities", "get">>,
     update_opportunity |-> <<"opportunities", "update">>,
     delete_opportunity |-> <<"opportunities", "remove">>,
     restore_opportunity |-> <<"opportunities", "restore">>,
     get_task |-> <<"tasks", "get">>, update_task |-> <<"tasks", "update">>,
     delete_task |-> <<"tasks", "remove">>, restore_task |-> <<"tasks", "restore">>,
     get_reminder |-> <<"reminders", "get">>, update_reminder |-> <<"reminders", "update">>,
     delete_reminder |-> <<"reminders", "remove">>,
     restore_reminder |-> <<"reminders", "restore">>,
     create_opportunity |-> <<"opportunities", "create">>,
     update_tenant |-> <<"tenants", "update">>, invite_user |-> <<"users", "invite">>,
     deactivate_user |-> <<"users", "deactivate">>,
     reactivate_user |-> <<"users", "reactivate">>]

\* the function of a route, run as its own transaction
RunRoute(db, route, args, token, t) ==
    CASE route[1] = "tenants" -> tenantsUpdate(db, args, token, t)
      [] route[2] = "invite" -> usersInvite(db, args, token, t)
      [] route[2] = "deactivate" -> usersDeactivate(db, args, token, t)
      [] route[2] = "reactivate" -> usersReactivate(db, args, token, t)
      [] route = <<"accounts", "create">> -> accountsCreate(db, args, token, t)
      [] route = <<"opportunities", "create">> -> opportunitiesCreate(db, args, token, t)
      [] route[2] = "list" -> accountsList(db, args, token, t)
      [] route[2] = "get" -> entityGet(db, route[1], args, token, t)
      [] route[2] = "update" /\ route[1] # "tenants" ->
             entityUpdate(db, route[1], args, token, t)
      [] route[2] = "remove" -> entityRemove(db, route[1], args, token, t)
      [] route[2] = "restore" -> entityRestore(db, route[1], args, token, t)

\* the mutant of executeToolCall: a name outside the routing table is served
\* by accounts.list
executeToolCallListsByDefault(db, toolName, args, token, t) ==
    The({[db |-> RunFunction(out).db, result |-> RunFunction(out).result,
          invoked |-> <<"accounts", "list">>, crm |-> out.result] :
         out \in {accountsList(db, args, token, t)}})

\* the mutant of executeToolCall: the caller is resolved before the name is
\* looked at
executeToolCallResolvesFirst(db, toolName, args, token, t) ==
    The({IF ~auth.ok
         THEN [db |-> db, result |-> Rethrown(auth), invoked |-> <<>>, crm |-> null]
         ELSE CASE toolName \in DOMAIN ToolRoutes ->
                  The({[db |-> RunFunction(out).db, result |-> RunFunction(out).result,
                        invoked |-> ToolRoutes[toolName], crm |-> out.result] :
                       out \in {RunRoute(db, ToolRoutes[toolName], args, token, t)}})
                [] \A k \in 1..Len(TOOLS) : TOOLS[k] # toolName ->
                  [db |-> db, result |-> validationError("Unknown tool"),
                   invoked |-> <<>>, crm |-> null] :
         auth \in {getAuthContext(db.users, token, t)}})

\* executeToolCall: invoked is the function the name is routed to and crm the
\* outcome of that function, null when none is run; a name outside the routing
\* table throws in the action itself
executeToolCall(db, toolName, args, token, t) ==
    CASE toolName \in DOMAIN ToolRoutes ->
             The({[db |-> RunFunction(out).db, result |-> RunFunction(out).result,
                   invoked |-> ToolRoutes[toolName], crm |-> out.result] :
                  out \in {RunRoute(db, ToolRoutes[toolName], args, token, t)}})
      [] \A k \in 1..Len(TOOLS) : TOOLS[k] # toolName ->
             [db |-> db, result |-> validationError("Unknown tool"),
              invoked |-> <<>>, crm |-> null]

RpcResult(id, result) == [jsonrpc |-> "2.0", id |-> id, result |-> result]
RpcError(id, error) == [jsonrpc |-> "2.0", id |-> id, error |-> error]

\* the mutant of handleMCPRequest: a method the switch does not name is
\* answered as tools/list is
handleMCPRequestListsByDefault(db, request, token, t) ==
    [db |-> db, response |-> RpcResult(request.id, [tools |-> TOOLS]),
     invoked |-> <<>>, crm |-> null]

\* handleMCPRequest: the CRM tables afterwards, the JSON-RPC response, the
\* function executeToolCall invoked and its outcome
handleMCPRequest(db, request, token, t) ==
    LET id == request.id
    IN  CASE request.method = Initialize ->
               [db |-> db,
                response |-> RpcResult(id, [protocolVersion |-> "2025-03-26",
                                            serverInfo |-> "mcp-crm",
                                            capabilities |-> "tools"]),
                invoked |-> <<>>, crm |-> null]
          [] request.method = ToolsList ->
               [db |-> db, response |-> RpcResult(id, [tools |-> TOOLS]),
                invoked |-> <<>>, crm |-> null]
          [] request.method = ToolsCall ->
               IF request.params.name = ""
               THEN [db |-> db,
                     response |-> RpcError(id, [code |-> -32602,
                                                message |-> "Missing tool name"]),
                     invoked |-> <<>>, crm |-> null]
               ELSE The({IF out.result.ok
                         THEN [db |-> out.db,
                               response |-> RpcResult(id, [content |-> out.result.value]),
                               invoked |-> out.invoked, crm |-> out.crm]
                         ELSE [db |-> out.db,
                               response |-> RpcError(id, [code |-> -32000,
                                                          message |-> out.result.message,
                                                          data |-> formatError(out.result)]),
                               invoked |-> out.invoked, crm |-> out.crm] :
                         out \in {executeToolCall(db, request.params.name,
                                                  request.params.arguments, token, t)}})
          [] OTHER ->
               [db |-> db,
                response |-> RpcError(id, [code |-> -32601, message |-> "Unknown method"]),
                invoked |-> <<>>, crm |-> null]

-----------------------------------------------------------------------------
(* MCP routes (convex/http.ts).  A request is [query, authorization,        *)
(* mcpSessionId, sessionId, body]: the token query parameter, the           *)
(* Authorization header as [scheme, token], the Mcp-Session-Id header,      *)
(* the sessionId query parameter (0 when absent, -1 for an id no session    *)
(* has) and the body.  A body is [parsed, id, method, params]; parsed is    *)
(* FALSE when request.json() or the first property access throws.  id is    *)
(* "absent" for a body without id (or with id null), else the id; "0" is    *)
(* the number 0.                                                            *)

NoHeader == [scheme |-> "", token |-> NoToken]
Bearer(token) == [scheme |-> "Bearer", token |-> token]
Basic(token) == [scheme |-> "Basic", token |-> token]

\* getToken: tokenFromQuery || tokenFromHeader
getToken(request) ==
    LET tokenFromQuery == request.query
        tokenFromHeader == IF request.authorization.scheme = "Bearer"
                           THEN request.authorization.token ELSE NoToken
    IN  IF tokenFromQuery # NoToken THEN tokenFromQuery ELSE tokenFromHeader

\* the mutant of publicMethods: tools/call listed as public
publicMethodsWithCall == {Initialize, ToolsList, Ping, ToolsCall}

\* const publicMethods = ["initialize", "tools/list", "ping"]
publicMethods == {Initialize, ToolsList, Ping}

\* body.id ?? null
IdOrNull(id) == IF id = "absent" THEN "null" ELSE id
\* !body.id
NoId(id) == id \in {"absent", "0"}
\* body.method?.startsWith("notifications/") || !body.method
NotificationShaped(method) ==
    \/ Len(method) >= 2 /\ method[1] = "notifications"
    \/ method = <<>>

Empty == [empty |-> TRUE]
AuthRequired(id) == RpcError(IdOrNull(id), [code |-> -32001, message |-> "Authentication required"])
ParseError == RpcError("null", [code |-> -32700, message |-> "Parse error"])

\* const MCP_PROTOCOL_VERSION
MCP_PROTOCOL_VERSION == "2025-03-26"

\* the Mcp-Session-Id response header: the client's, or a generated one
McpSessionHeader(request) ==
    IF request.mcpSessionId # "" THEN request.mcpSessionId ELSE "generated"

\* what a call of handleMCPRequest did: the function invoked, its outcome and
\* the JSON-RPC response returned to the route
Run(out) == [invoked |-> out.invoked, crm |-> out.crm, answer |-> out.response]
NoRun == [invoked |-> <<>>, crm |-> null, answer |-> [none |-> TRUE]]

\* POST /mcp: the CRM tables afterwards and the response; dispatched tells
\* whether handleMCPRequest was called, token with which token
McpResponse(db, request, t) ==
    The({IF ~body.parsed
         THEN [db |-> db, dispatched |-> FALSE, run |-> NoRun, token |-> NoToken, status |-> 400,
               sessionHeader |-> "", versionHeader |-> MCP_PROTOCOL_VERSION,
               challenge |-> FALSE, body |-> ParseError]
         ELSE IF token = NoToken /\ body.method \notin publicMethods
         THEN [db |-> db, dispatched |-> FALSE, run |-> NoRun, token |-> NoToken, status |-> 401,
               sessionHeader |-> McpSessionHeader(request),
               versionHeader |-> MCP_PROTOCOL_VERSION, challenge |-> TRUE,
               body |-> AuthRequired(body.id)]
         ELSE The({IF NoId(body.id) /\ NotificationShaped(body.method)
                   THEN [db |-> out.db, dispatched |-> TRUE, run |-> Run(out), token |-> token,
                         status |-> 202, sessionHeader |-> McpSessionHeader(request),
                         versionHeader |-> MCP_PROTOCOL_VERSION,
                         challenge |-> FALSE, body |-> Empty]
                   ELSE [db |-> out.db, dispatched |-> TRUE, run |-> Run(out), token |-> token,
                         status |-> 200, sessionHeader |-> McpSessionHeader(request),
                         versionHeader |-> MCP_PROTOCOL_VERSION,
                         challenge |-> FALSE, body |-> out.response] :
                   out \in {handleMCPRequest(db, [id |-> IdOrNull(body.id),
                                                  method |-> body.method,
                                                  params |-> body.params], token, t)}}) :
         token \in {getToken(request)}, body \in {request.body}})

\* the mutant of MessagesToken: the request's own token is preferred to the
\* session's
MessagesTokenPrefersRequest(sessions, request, t) ==
    The({IF getToken(request) # NoToken THEN getToken(request) ELSE fromSession :
         fromSession \in {IF request.sessionId # 0
                          THEN SessionsLookup(sessions, request.sessionId, t)
                          ELSE NoToken}})

\* POST /messages, the token: the session's if the lookup returns one, else
\* getToken
MessagesToken(sessions, request, t) ==
    The({IF fromSession # NoToken THEN fromSession ELSE getToken(request) :
         fromSession \in {IF request.sessionId # 0
                          THEN SessionsLookup(sessions, request.sessionId, t)
                          ELSE NoToken}})

\* POST /messages: no 202 branch and no MCP headers
MessagesResponse(db, sessions, request, t) ==
    The({IF ~body.parsed
         THEN [db |-> db, dispatched |-> FALSE, run |-> NoRun, token |-> NoToken, status |-> 400,
               sessionHeader |-> "", versionHeader |-> "", challenge |-> FALSE,
               body |-> ParseError]
         ELSE IF token = NoToken /\ body.method \notin publicMethods
         THEN [db |-> db, dispatched |-> FALSE, run |-> NoRun, token |-> NoToken, status |-> 401,
               sessionHeader |-> "", versionHeader |-> "", challenge |-> FALSE,
               body |-> AuthRequired(body.id)]
         ELSE The({[db |-> out.db, dispatched |-> TRUE, run |-> Run(out), token |-> token,
                    status |-> 200,
                    sessionHeader |-> "", versionHeader |-> "", challenge |-> FALSE, body |-> out.response] :
                   out \in {handleMCPRequest(db, [id |-> IdOrNull(body.id),
                                                  method |-> body.method,
                                                  params |-> body.params], token, t)}}) :
         token \in {MessagesToken(sessions, request, t)}, body \in {request.body}})

\* the sessions GET /sse has created, whatever the sweep has deleted since
SessionState(sessionId) ==
    IF sessionId \notin 1..Len(sseOpened) THEN "none"
    ELSE IF sseOpened[sessionId].expiresAt < now THEN "expired"
    ELSE "live"

\* POST /mcp, the whole handler
postMcp(request) ==
    \E out \in {McpResponse(Db, request, now)} :
        /\ Len(out.db.accounts) > Len(accounts) => Len(out.db.accounts) <= MaxAccounts
        /\ Len(out.db.auditLogs) <= MaxAccounts + MaxAudits
        /\ Commit(out.db)
        /\ http' = [route |-> "POST /mcp", request |-> request, status |-> out.status,
                    sessionHeader |-> out.sessionHeader,
                    versionHeader |-> out.versionHeader, challenge |-> out.challenge,
                    body |-> out.body, dispatched |-> out.dispatched, run |-> out.run,
                    token |-> out.token,
                    session |-> "none"]
        /\ UNCHANGED <<now, ticks, oauthVars, mcpSessions, sseOpened, authVars, proxyVars>>

\* GET /sse: a session is created for the token query parameter, "" included
getSse(token) ==
    /\ Len(sseOpened) < MaxSessions
    /\ \E created \in {SessionsCreate(mcpSessions, Len(sseOpened) + 1,
                                      [token |-> token], now)} :
           /\ mcpSessions' = created
           /\ sseOpened' = Append(sseOpened, created[Len(created)])
           /\ http' = [route |-> "GET /sse", status |-> 200,
                       body |-> [endpoint |-> Len(sseOpened) + 1]]
    /\ UNCHANGED <<now, ticks, oauthVars, crmVars, authVars, proxyVars>>

\* POST /messages, the whole handler
postMessages(request) ==
    \E out \in {MessagesResponse(Db, mcpSessions, request, now)} :
        /\ Len(out.db.accounts) <= MaxAccounts
        /\ Commit(out.db)
        /\ http' = [route |-> "POST /messages", request |-> request, status |-> out.status,
                    sessionHeader |-> out.sessionHeader,
                    versionHeader |-> out.versionHeader, challenge |-> out.challenge,
                    body |-> out.body, dispatched |-> out.dispatched, run |-> out.run,
                    token |-> out.token,
                    session |-> SessionState(request.sessionId)]
        /\ UNCHANGED <<now, ticks, oauthVars, mcpSessions, sseOpened, authVars, proxyVars>>

\* sessions.cleanup
sessionsCleanup ==
    /\ mcpSessions' = Sweep(mcpSessions, now)
    /\ UNCHANGED <<now, ticks, oauthVars, crmVars, sseOpened, http, authVars, proxyVars>>

-----------------------------------------------------------------------------
(* The requests of the MCP routes *)

NoParams == [name |-> "", arguments |-> [name |-> ""]]
Call(name, argName) == [name |-> name, arguments |-> [name |-> argName]]
Body(id, method, params) == [parsed |-> TRUE, id |-> id, method |-> method, params |-> params]
BadBody == [parsed |-> FALSE, id |-> "absent", method |-> <<>>, params |-> NoParams]

Initialized == <<"notifications", "initialized">>
Methods == {<<>>, Initialize, ToolsList, Ping, Initialized, <<"notifications">>,
            <<"resources", "list">>}
Calls == {NoParams, Call("create_account", "Acme"), Call("create_account", ""),
          Call("list_accounts", ""), Call("drop_database", ""),
          [name |-> "get_account", arguments |-> [id |-> <<"accounts", 1>>]]}

McpBodies ==
    {Body(id, m, NoParams) : id \in {"absent", "0", "1"}, m \in Methods}
    \cup {Body(id, ToolsCall, c) : id \in {"absent", "1"}, c \in Calls}
    \cup {BadBody}

Request(query, authorization, mcpSessionId, sessionId, body) ==
    [query |-> query, authorization |-> authorization, mcpSessionId |-> mcpSessionId,
     sessionId |-> sessionId, body |-> body]

\* the credentials a request carries: [query, authorization]
NoCredentials == {<<NoToken, NoHeader>>, <<NoToken, Basic(TokA)>>, <<NoToken, Bearer(NoToken)>>}
Credentials ==
    NoCredentials
    \cup {<<TokA, NoHeader>>, <<NoToken, Bearer(TokA)>>, <<TokB, Bearer(TokA)>>,
          <<NoToken, Bearer(TokOld)>>, <<TokJunk, NoHeader>>}

McpRequests ==
    {Request(c[1], c[2], sid, 0, b) : c \in Credentials, sid \in {"", "client"},
                                      b \in McpBodies}

\* POST /mcp from clients without credentials
AnonymousMcpRequests ==
    {Request(c[1], c[2], "", 0, b) :
        c \in {<<NoToken, NoHeader>>, <<NoToken, Basic(TokA)>>},
        b \in {Body("1", ToolsCall, Call("create_account", "Acme")),
               Body("absent", Initialized, NoParams), Body("1", ToolsList, NoParams)}}

SessionTokens == {NoToken, TokA}

MessageBodies ==
    {Body("1", ToolsList, NoParams), Body("1", ToolsCall, Call("create_account", "Acme")),
     Body("1", ToolsCall, Call("list_accounts", ""))}

MessageRequests ==
    {Request(c[1], c[2], "", sid, b) :
        c \in {<<NoToken, NoHeader>>, <<TokB, NoHeader>>, <<NoToken, Bearer(TokB)>>},
        sid \in (-1)..MaxSessions, b \in MessageBodies}
    \cup {Request(NoToken, NoHeader, "", 0, BadBody)}

NextMcp ==
    \E r \in McpRequests : postMcp(r)

SpecMcp == Init /\ [][NextMcp]_vars

NextSse ==
    \/ \E d \in {SESSION_TTL, SESSION_TTL + 1} : Tick(d)
    \/ \E t \in SessionTokens : getSse(t)
    \/ \E r \in MessageRequests : postMessages(r)
    \/ \E r \in AnonymousMcpRequests : postMcp(r)
    \/ sessionsCleanup

SpecSse == Init /\ [][NextSse]_vars

\* the admin-only tools called by an admin, by an active member of the same
\* tenant and by a member of another tenant
InitAdmin ==
    /\ now = Epoch
    /\ ticks = 0
    /\ oauthCodes = <<>>
    /\ oauthPkce = <<>>
    /\ mcpSessions = <<>>
    /\ users = Append(SeedUsers, UserM)
    /\ accounts = <<>>
    /\ contacts = <<>>
    /\ opportunities = <<>>
    /\ tasks = <<>>
    /\ reminders = <<>>
    /\ tenants = SeedTenants
    /\ auditLogs = <<>>
    /\ issued = <<>>
    /\ tokenReq = [p \in Clients |-> IdleReq]
    /\ exchanges = [c \in 1..MaxCodes |-> <<>>]
    /\ sseOpened = <<>>
    /\ http = NoHttp
    /\ authInput = NoToken
    /\ authResult = [none |-> TRUE]
    /\ ProxyNotStarted

AdminTools == {"invite_user", "deactivate_user", "reactivate_user", "update_tenant"}

AdminCalls ==
    {[name |-> "invite_user", arguments |-> a] :
        a \in {[email |-> "d@x", name |-> "Dee"], [email |-> "b@x", name |-> "Bee"],
               [email |-> "nobody", name |-> "Dee"]}}
    \cup {[name |-> n, arguments |-> [id |-> id]] :
            n \in {"deactivate_user", "reactivate_user"}, id \in {"u1", "u2", "u3", "u4"}}
    \cup {[name |-> "update_tenant", arguments |-> a] :
            a \in {[name |-> "New"], [name |-> ""],
                   [settings |-> [opportunityStages |-> <<"open", "closed_won">>]]}}

AdminRequests ==
    {Request(NoToken, Bearer(token), "", 0, Body("1", ToolsCall, c)) :
        token \in {TokA, TokM, TokB}, c \in AdminCalls}

NextAdmin ==
    \E r \in AdminRequests : postMcp(r)

SpecAdmin == InitAdmin /\ [][NextAdmin]_vars

\* the refresh_token grant beside stored codes, challenges and sessions
NextRefresh ==
    \/ Tick(CODE_TTL + 1)
    \/ \E s \in States : handleAuthorize(s, "h1", "S256")
    \/ \E b \in CodeBodies : handleOauthCode(b.token, b.state)
    \/ \E b \in RefreshBodies : handleToken(b)
    \/ getSse(TokA)

SpecRefresh == Init /\ [][NextRefresh]_vars

\* expiry of codes and sessions side by side
ExpiryRequests ==
    {Request(NoToken, NoHeader, "", sid, b) :
        sid \in 1..MaxSessions,
        b \in {Body("1", ToolsCall, Call("list_accounts", "")), Body("1", ToolsList, NoParams)}}

NextExpiry ==
    \/ \E d \in {CODE_TTL + 1, SESSION_TTL, SESSION_TTL + 1} : Tick(d)
    \/ handleOauthCode(TokA, "")
    \/ \E b \in RaceBodies : handleToken(b)
    \/ getSse(TokA)
    \/ \E r \in ExpiryRequests : postMessages(r)
    \/ authCodesCleanup
    \/ sessionsCleanup

SpecExpiry == Init /\ [][NextExpiry]_vars

-----------------------------------------------------------------------------
(* Identity resolution on its own: both token modules applied to a token *)

ClaimSets ==
    [exp : {0, 1, 1001, 100 * 1000},
     iss : {EXPECTED_ISSUER, "https://elsewhere.example", ""},
     aud : {EXPECTED_AUDIENCE, "other"},
     sub : {<<"u1", "session">>, <<"u3", "session">>, <<"u9", "session">>, <<>>},
     email : {"", "a@x"}]

AuthTokens ==
    {NoToken, TokJunk, <<HeaderSeg, SigSeg>>, <<HeaderSeg, HeaderSeg, SigSeg, SigSeg>>,
     <<HeaderSeg, Seg("garbage", NoClaims), SigSeg>>,
     <<HeaderSeg, Seg("text", NoClaims), SigSeg>>}
    \cup {Jwt(c) : c \in ClaimSets}

UserTables == {SeedUsers, <<>>, <<UserOff, UserA>>}

InitToken ==
    /\ now = Epoch
    /\ ticks = 0
    /\ oauthCodes = <<>>
    /\ oauthPkce = <<>>
    /\ mcpSessions = <<>>
    /\ users \in UserTables
    /\ accounts = <<>>
    /\ contacts = <<>>
    /\ opportunities = <<>>
    /\ tasks = <<>>
    /\ reminders = <<>>
    /\ tenants = SeedTenants
    /\ auditLogs = <<>>
    /\ issued = <<>>
    /\ tokenReq = [p \in Clients |-> IdleReq]
    /\ exchanges = [c \in 1..MaxCodes |-> <<>>]
    /\ sseOpened = <<>>
    /\ http = NoHttp
    /\ authInput = NoToken
    /\ authResult = [none |-> TRUE]
    /\ ProxyNotStarted

\* getAuthContextFromToken(ctx, token) called in a query or mutation
resolveIdentity(token) ==
    /\ authInput' = token
    /\ authResult' = [at |-> now,
                      tokenAuth |-> getAuthContextFromToken(users, token, now),
                      hardened |-> getAuthContextFromTokenValidated(users, token, now)]
    /\ UNCHANGED <<now, ticks, oauthVars, mcpSessions, crmVars, sseOpened, http, proxyVars>>

NextToken ==
    \/ \E d \in {2000, SESSION_TTL} : Tick(d)
    \/ \E token \in AuthTokens : resolveIdentity(token)

SpecToken == InitToken /\ [][NextToken]_vars

-----------------------------------------------------------------------------
(* Claims about expiry, identity resolution and the MCP routes *)

IsMcpPost == http.route \in {"POST /mcp", "POST /messages"}
CarriesBearer(request) ==
    request.authorization.scheme = "Bearer" /\ request.authorization.token # NoToken
RequestMethod == http.request.body.method
HasResult(body) == "result" \in DOMAIN body /\ "error" \notin DOMAIN body
HasError(body, code) == "error" \in DOMAIN body /\ body.error.code = code
IsAuthRequired ==
    http.status = 401 /\ HasError(http.body, -32001) /\ ~http.dispatched

\* C4: a lookup made after expiresAt treats the record as absent whether or
\* not a sweep has run: every exchange of a code made after the code's
\* expiresAt returns invalid_grant, and every POST /messages that carries only
\* the id of an expired session and a non-public method is answered 401.
C4_ExpiredIsAbsent ==
    /\ \A c \in 1..Len(issued) : \A i \in 1..Len(exchanges[c]) :
          exchanges[c][i].late => IsInvalidGrant(exchanges[c][i].result)
    /\ (/\ http.route = "POST /messages"
        /\ http.session = "expired"
        /\ http.request.query = NoToken
        /\ ~CarriesBearer(http.request)
        /\ RequestMethod \notin {Initialize, ToolsList, Ping})
       => IsAuthRequired

\* the expired code was still stored when it was exchanged, and the expired
\* session is still stored after the message was refused
C4_Witness ==
    /\ \E c \in 1..Len(issued) : \E i \in 1..Len(exchanges[c]) :
          /\ exchanges[c][i].late
          /\ exchanges[c][i].result = InvalidGrant("Authorization code expired")
    /\ http.route = "POST /messages"
    /\ http.session = "expired"
    /\ RequestMethod = ToolsCall
    /\ http.status = 401
    /\ \E i \in 1..Len(mcpSessions) : mcpSessions[i].sessionId = http.request.sessionId

\* the defects C6 lists, read off the token itself
C6_Defective(token, t) ==
    \/ token = NoToken
    \/ Len(token) # 3
    \/ token[2].enc # "json"
    \/ token[2].claims.exp = 0
    \/ token[2].claims.exp < t \div 1000
    \/ token[2].claims.iss # EXPECTED_ISSUER
    \/ token[2].claims.aud # EXPECTED_AUDIENCE

IsUnauthorized(result) == ~result.ok /\ result.code = "UNAUTHORIZED"

\* C6: for every token that is missing, malformed, without exp, expired, of
\* another issuer or of another audience, getAuthContextFromToken fails with
\* UNAUTHORIZED and returns no AuthContext, whatever users are stored.
C6_DefectiveTokenUnauthorized ==
    ("tokenAuth" \in DOMAIN authResult /\ C6_Defective(authInput, authResult.at))
        => IsUnauthorized(authResult.tokenAuth)

\* the same statement about the hardened token module
HardenedRejectsDefective ==
    ("hardened" \in DOMAIN authResult /\ C6_Defective(authInput, authResult.at))
        => IsUnauthorized(authResult.hardened)

\* does the request of http carry no token a handler could resolve: none in
\* the query, no Bearer header and, on /messages, no live session with a token
C7_NoToken(h) ==
    /\ h.request.query = NoToken
    /\ ~CarriesBearer(h.request)
    /\ h.route = "POST /messages" =>
          \/ h.session \in {"none", "expired"}
          \/ sseOpened[h.request.sessionId].token = NoToken

\* C7: a POST to /mcp or /messages that carries no token and a method other
\* than initialize, tools/list and ping is answered 401 with JSON-RPC error
\* -32001 and is not dispatched: the step that serves it changes no CRM table,
\* no authorization code, no PKCE challenge and no session.
C7_NoTokenNoDispatch ==
    [][(/\ http' # http
        /\ http'.route \in {"POST /mcp", "POST /messages"}
        /\ http'.request.body.parsed
        /\ C7_NoToken(http')
        /\ http'.request.body.method \notin {Initialize, ToolsList, Ping})
       => /\ http'.status = 401
          /\ HasError(http'.body, -32001)
          /\ ~http'.dispatched
          /\ UNCHANGED <<users, accounts, auditLogs, oauthCodes, oauthPkce, mcpSessions>>]_vars

\* a tools/call that would create an account is refused on /messages for a
\* session opened without a token, and one is refused on /mcp
C7_Witness ==
    /\ IsMcpPost
    /\ C7_NoToken(http)
    /\ RequestMethod = ToolsCall
    /\ http.request.body.params.name = "create_account"
    /\ http.route = "POST /messages" => http.session = "live"
    /\ IsAuthRequired
    /\ accounts = <<>>
    /\ contacts = <<>>
    /\ opportunities = <<>>
    /\ tasks = <<>>
    /\ reminders = <<>>
    /\ tenants = SeedTenants

\* C8: a POST to /mcp with method initialize, tools/list or ping, without
\* Authorization header and without token query parameter, is answered 200
\* with a JSON-RPC result and no error member.
C8_PublicMethodsSucceed ==
    (/\ http.route = "POST /mcp"
     /\ http.request.query = NoToken
     /\ http.request.authorization = NoHeader
     /\ http.request.body.parsed
     /\ RequestMethod \in {Initialize, ToolsList, Ping})
    => http.status = 200 /\ HasResult(http.body)

\* C9: every POST to /mcp whose body has no id and whose method begins with
\* notifications/ or is absent is answered 202 with an empty body, whatever
\* token is or is not supplied.
C9_NotificationSilence ==
    (/\ http.route = "POST /mcp"
     /\ http.request.body.parsed
     /\ http.request.body.id = "absent"
     /\ \/ RequestMethod = <<>>
        \/ Len(RequestMethod) >= 2 /\ RequestMethod[1] = "notifications")
    => http.status = 202 /\ http.body = Empty

\* the user a token was issued to: the one its sub names
C10_IdentityOf(token) ==
    CHOOSE u \in {SeedUsers[i] : i \in 1..Len(SeedUsers)} : u._id = token[2].claims.sub[1]

\* C10: once GET /sse?token=T has created session sid, every POST
\* /messages?sessionId=sid made before the session expires and without an
\* Authorization header is dispatched with token T: tools/list returns the
\* whole catalog, a tools/call runs under the identity of T (what it creates
\* belongs to T's user and tenant, what it lists belongs to T's tenant), and
\* the session stays stored until it expires however many messages it served.
C10_SessionBridgesToken ==
    /\ \A sid \in 1..Len(sseOpened) :
          ~(sseOpened[sid].expiresAt < now) =>
              \E i \in 1..Len(mcpSessions) : mcpSessions[i] = sseOpened[sid]
    /\ (/\ http.route = "POST /messages"
        /\ http.session = "live"
        /\ sseOpened[http.request.sessionId].token # NoToken
        /\ http.request.authorization = NoHeader
        /\ http.request.body.parsed)
       => LET T == sseOpened[http.request.sessionId].token
              who == C10_IdentityOf(T)
              call == http.request.body.params
          IN  /\ http.dispatched
              /\ http.token = T
              /\ http.status = 200
              /\ RequestMethod = ToolsList =>
                    HasResult(http.body) /\ http.body.result.tools = TOOLS
              /\ (RequestMethod = ToolsCall /\ call.name = "create_account") =>
                    /\ HasResult(http.body)
                    /\ http.body.result.content.createdBy = who._id
                    /\ http.body.result.content.tenantId = who.tenantId
              /\ (RequestMethod = ToolsCall /\ call.name = "list_accounts") =>
                    /\ HasResult(http.body)
                    /\ \A i \in 1..Len(http.body.result.content.items) :
                          http.body.result.content.items[i].tenantId = who.tenantId

\* a session opened with one user's token serves a message whose query names
\* another user's token, after it has served a message that created an account
C10_Witness ==
    /\ http.route = "POST /messages"
    /\ http.session = "live"
    /\ http.request.authorization = NoHeader
    /\ http.request.query # NoToken
    /\ http.request.query # sseOpened[http.request.sessionId].token
    /\ sseOpened[http.request.sessionId].token # NoToken
    /\ RequestMethod = ToolsCall
    /\ http.request.body.params.name = "list_accounts"
    /\ HasResult(http.body)
    /\ Len(http.body.result.content.items) > 0

-----------------------------------------------------------------------------
(* The entity functions called by a client: each is a public Convex query  *)
(* or mutation taking the caller's token as _token                         *)

\* the call is served in one transaction; a mutation that throws is rolled back
Served(function, table, args, token, out) ==
    /\ Len(out.db.auditLogs) <= MaxAudits
    /\ Commit(out.db)
    /\ http' = [route |-> "convex", function |-> function, table |-> table, args |-> args,
                token |-> token, result |-> out.result]
    /\ UNCHANGED <<now, ticks, oauthVars, mcpSessions, sseOpened, authVars, proxyVars>>

get(table, args, token) ==
    \E out \in {entityGet(Db, table, args, token, now)} :
        Served("get", table, args, token, out)

update(table, args, token) ==
    \E out \in {entityUpdate(Db, table, args, token, now)} :
        Served("update", table, args, token, out)

remove(table, args, token) ==
    \E out \in {entityRemove(Db, table, args, token, now)} :
        Served("remove", table, args, token, out)

restore(table, args, token) ==
    \E out \in {entityRestore(Db, table, args, token, now)} :
        Served("restore", table, args, token, out)

\* the documents the tenants hold at the start: in every table document 1 is
\* tenant tA's and document 2 tenant tB's; tB's task and reminder are deleted
Doc(table, n, tenantId, deletedAt) ==
    Merge([_id |-> <<table, n>>, tenantId |-> tenantId, createdAt |-> Epoch,
           updatedAt |-> Epoch, deletedAt |-> deletedAt],
          [accounts |-> [name |-> "Acme"],
           contacts |-> [accountId |-> <<"accounts", n>>, firstName |-> "Ann"],
           opportunities |-> [accountId |-> <<"accounts", n>>, name |-> "Deal",
                              stage |-> "lead"],
           tasks |-> [title |-> "Call", status |-> "pending"],
           reminders |-> [title |-> "Ping", isCompleted |-> FALSE]][table])

SeedTable(table) ==
    <<Doc(table, 1, "tA", 0),
      Doc(table, 2, "tB", IF table \in {"tasks", "reminders"} THEN Epoch ELSE 0)>>

InitCrm ==
    /\ now = Epoch
    /\ ticks = 0
    /\ oauthCodes = <<>>
    /\ oauthPkce = <<>>
    /\ mcpSessions = <<>>
    /\ users = SeedUsers
    /\ accounts = SeedTable("accounts")
    /\ contacts = SeedTable("contacts")
    /\ opportunities = SeedTable("opportunities")
    /\ tasks = SeedTable("tasks")
    /\ reminders = SeedTable("reminders")
    /\ tenants = SeedTenants
    /\ auditLogs = <<>>
    /\ issued = <<>>
    /\ tokenReq = [p \in Clients |-> IdleReq]
    /\ exchanges = [c \in 1..MaxCodes |-> <<>>]
    /\ sseOpened = <<>>
    /\ http = NoHttp
    /\ authInput = NoToken
    /\ authResult = [none |-> TRUE]
    /\ ProxyNotStarted

\* ids passed to a function of a table: tA's document, tB's, and one that was never created
IdsOf(table) == {<<table, n>> : n \in 1..3}

\* the text field update sets in each table
TextField ==
    [accounts |-> "name", contacts |-> "firstName", opportunities |-> "name",
     tasks |-> "title", reminders |-> "title"]

\* arguments of update
UpdateArgs(table) ==
    {[f \in {"id", TextField[table]} |-> IF f = "id" THEN id ELSE text] :
        id \in IdsOf(table), text \in {"", "New"}}
    \cup (IF table = "opportunities"
          THEN {[id |-> id, stage |-> stage] :
                    id \in IdsOf(table), stage \in {"closed_won", "stalled"}}
               \cup {[id |-> <<table, 1>>, contactId |-> c] : c \in IdsOf("contacts")}
          ELSE IF table = "tasks"
          THEN {[id |-> <<table, 1>>, linkedEntityType |-> "contact", linkedEntityId |-> c] :
                    c \in IdsOf("contacts")}
          ELSE {})

\* arguments of remove
RemoveArgs(table) ==
    {[id |-> id] : id \in IdsOf(table)}
    \cup (IF table = "accounts" THEN {[id |-> id, force |-> TRUE] : id \in IdsOf(table)} ELSE {})

CrmTokens == {TokA, TokB}

NextCrm ==
    \/ \E table \in EntityTables : \E id \in IdsOf(table), token \in CrmTokens :
          get(table, [id |-> id], token)
    \/ \E table \in EntityTables : \E args \in UpdateArgs(table) : update(table, args, TokA)
    \/ \E table \in EntityTables : \E args \in RemoveArgs(table) : remove(table, args, TokA)
    \/ \E table \in EntityTables : \E id \in IdsOf(table) : restore(table, [id |-> id], TokA)

SpecCrm == InitCrm /\ [][NextCrm]_vars

\* opportunities created and updated with the contacts of two accounts of one
\* tenant, a deleted contact, another tenant's contact and an unknown one
create(table, args, token) ==
    \E out \in {opportunitiesCreate(Db, args, token, now)} :
        Served("create", table, args, token, out)

ContactOf(n, account, tenantId, deletedAt) ==
    Merge(Doc("contacts", n, tenantId, deletedAt), [accountId |-> <<"accounts", account>>])

InitOpp ==
    /\ now = Epoch
    /\ ticks = 0
    /\ oauthCodes = <<>>
    /\ oauthPkce = <<>>
    /\ mcpSessions = <<>>
    /\ users = SeedUsers
    /\ accounts = <<Doc("accounts", 1, "tA", 0), Doc("accounts", 2, "tA", 0),
                    Doc("accounts", 3, "tB", 0)>>
    /\ contacts = <<ContactOf(1, 1, "tA", 0), ContactOf(2, 2, "tA", 0),
                    ContactOf(3, 1, "tA", Epoch), ContactOf(4, 3, "tB", 0)>>
    /\ opportunities = <<Doc("opportunities", 1, "tA", 0)>>
    /\ tasks = <<>>
    /\ reminders = <<>>
    /\ tenants = SeedTenants
    /\ auditLogs = <<>>
    /\ issued = <<>>
    /\ tokenReq = [p \in Clients |-> IdleReq]
    /\ exchanges = [c \in 1..MaxCodes |-> <<>>]
    /\ sseOpened = <<>>
    /\ http = NoHttp
    /\ authInput = NoToken
    /\ authResult = [none |-> TRUE]
    /\ ProxyNotStarted

ContactIds == {<<"contacts", n>> : n \in 1..5}

CreateArgs ==
    {[accountId |-> <<"accounts", a>>, name |-> name, stage |-> stage] :
        a \in 1..2, name \in {"", "Deal"}, stage \in {"lead", "stalled"}}
    \cup {[accountId |-> <<"accounts", a>>, name |-> "Deal", stage |-> "lead",
            contactId |-> c] : a \in 1..3, c \in ContactIds}

NextOpp ==
    \/ \E args \in CreateArgs : create("opportunities", args, TokA)
    \/ \E c \in ContactIds :
          update("opportunities", [id |-> <<"opportunities", 1>>, contactId |-> c], TokA)
    \/ \E args \in RemoveArgs("contacts") : remove("contacts", args, TokA)

SpecOpp == InitOpp /\ [][NextOpp]_vars

\* accounts, contacts and opportunities created, updated, removed and
\* restored by one tenant's user, beside another tenant's documents
MaxCalls == 3       \* mutations that commit in one behaviour

\* a function of the CRM modules called by a client, served in one transaction
Mutated(function, table, args, token, out) ==
    /\ Len(out.db.auditLogs) <= MaxCalls
    /\ Commit(out.db)
    /\ http' = [route |-> "convex", function |-> function, table |-> table, args |-> args,
                token |-> token, result |-> out.result]
    /\ UNCHANGED <<now, ticks, oauthVars, mcpSessions, sseOpened, authVars, proxyVars>>

createIn(table, args, token) ==
    \E out \in {CASE table = "accounts" -> accountsCreate(Db, args, token, now)
                  [] table = "contacts" -> contactsCreate(Db, args, token, now)
                  [] table = "opportunities" -> opportunitiesCreate(Db, args, token, now)} :
        Mutated("create", table, args, token, out)

updateIn(table, args, token) ==
    \E out \in {entityUpdate(Db, table, args, token, now)} :
        Mutated("update", table, args, token, out)

removeIn(table, args, token) ==
    \E out \in {entityRemove(Db, table, args, token, now)} :
        Mutated("remove", table, args, token, out)

restoreIn(table, args, token) ==
    \E out \in {entityRestore(Db, table, args, token, now)} :
        Mutated("restore", table, args, token, out)

ParentTables == {"accounts", "contacts", "opportunities"}

ParentCreateArgs(table) ==
    CASE table = "accounts" -> {[name |-> "Acme"]}
      [] table = "contacts" ->
            {[accountId |-> <<"accounts", a>>, firstName |-> "Ann", lastName |-> "Lee"] :
                a \in 1..2}
      [] table = "opportunities" ->
            {[accountId |-> <<"accounts", 1>>, name |-> "Deal", stage |-> "lead"]}

ParentUpdateArgs(table) ==
    {[f \in {"id", TextField[table]} |-> IF f = "id" THEN <<table, 1>> ELSE "New"]}

ParentRemoveArgs(table) ==
    {[id |-> <<table, 1>>]}
    \cup (IF table = "accounts" THEN {[id |-> <<table, 1>>, force |-> TRUE]} ELSE {})

ParentRestoreIds(table) ==
    {<<table, 1>>} \cup (IF table = "contacts" THEN {<<table, 3>>} ELSE {})

NextParent ==
    \/ \E table \in ParentTables : \E args \in ParentCreateArgs(table) :
          createIn(table, args, TokA)
    \/ \E table \in ParentTables : \E args \in ParentUpdateArgs(table) :
          updateIn(table, args, TokA)
    \/ \E table \in ParentTables : \E args \in ParentRemoveArgs(table) :
          removeIn(table, args, TokA)
    \/ \E table \in ParentTables : \E id \in ParentRestoreIds(table) :
          restoreIn(table, [id |-> id], TokA)

SpecParent == InitCrm /\ [][NextParent]_vars

\* the user mutations called by the admin and by a member of one tenant and
\* by a member of another
invite(args, token) ==
    \E out \in {usersInvite(Db, args, token, now)} :
        Mutated("invite", "users", args, token, out)

deactivate(args, token) ==
    \E out \in {usersDeactivate(Db, args, token, now)} :
        Mutated("deactivate", "users", args, token, out)

reactivate(args, token) ==
    \E out \in {usersReactivate(Db, args, token, now)} :
        Mutated("reactivate", "users", args, token, out)

updateRole(args, token) ==
    \E out \in {usersUpdateRole(Db, args, token, now)} :
        Mutated("updateRole", "users", args, token, out)

UserCallers == {TokA, TokM}

NextUsers ==
    \/ \E token \in UserCallers :
          invite([email |-> "n@x", name |-> "Nan", role |-> "admin"], token)
    \/ \E id \in {"u1", "u3", "u4"}, token \in UserCallers : deactivate([id |-> id], token)
    \/ deactivate([id |-> "u1"], TokB)
    \/ \E id \in {"u1", "u4", "u5"}, token \in UserCallers : reactivate([id |-> id], token)
    \/ \E id \in {"u1", "u4"}, role \in {"admin", "member"}, token \in UserCallers :
          updateRole([id |-> id, role |-> role], token)
    \/ updateRole([id |-> "u2", role |-> "member"], TokA)

SpecUsers == InitAdmin /\ [][NextUsers]_vars

\* the pipeline summary read between changes of the opportunities and of the
\* tenant's stages
pipelineSummary(token) ==
    \E out \in {getPipelineSummary(Db, [none |-> TRUE], token, now)} :
        Mutated("getPipelineSummary", "opportunities", [none |-> TRUE], token, out)

updateTenant(args, token) ==
    \E out \in {tenantsUpdate(Db, args, token, now)} :
        Mutated("update", "tenants", args, token, out)

StageLists == {<<"lead", "closed_won">>, <<"closed_won">>, <<"lead", "lead">>}

PipelineCreateArgs ==
    {[accountId |-> <<"accounts", 1>>, name |-> "Deal", stage |-> stage, amount |-> 5] :
        stage \in {"lead", "closed_won"}}

PipelineUpdateArgs ==
    {[id |-> <<"opportunities", 1>>, amount |-> 3],
     [id |-> <<"opportunities", 1>>, stage |-> "closed_won"]}

NextPipeline ==
    \/ \E token \in CrmTokens : pipelineSummary(token)
    \/ \E args \in PipelineCreateArgs : createIn("opportunities", args, TokA)
    \/ \E args \in PipelineUpdateArgs : updateIn("opportunities", args, TokA)
    \/ removeIn("opportunities", [id |-> <<"opportunities", 1>>], TokA)
    \/ restoreIn("opportunities", [id |-> <<"opportunities", 1>>], TokA)
    \/ \E stages \in StageLists :
          updateTenant([settings |-> [opportunityStages |-> stages]], TokA)

SpecPipeline == InitCrm /\ [][NextPipeline]_vars

-----------------------------------------------------------------------------
(* The stdio proxy (mcp-proxy/index.js).  stdin is a sequence of symbols:  *)
(* NL is "\n" and a JSON text is written as its two halves <<k, 1>> and    *)
(* <<k, 2>>, k being the index of the message in Messages, so that a chunk *)
(* can end in the middle of a message.  JSON.parse accepts a line that is  *)
(* the two halves of one message that is JSON.                             *)

NL == <<0, 0>>
Line(k) == <<<<k, 1>>, <<k, 2>>>>

\* the messages a client writes: two requests, a notification, a line that
\* is not JSON
Messages ==
    <<[jsonrpc |-> "2.0", id |-> 1, method |-> "tools/list"],
      [jsonrpc |-> "2.0", method |-> "notifications/initialized"],
      [jsonrpc |-> "2.0", id |-> 2, method |-> "tools/call"],
      [junk |-> TRUE]>>

Streams ==
    {Line(1) \o <<NL>> \o Line(2) \o <<NL>> \o Line(3) \o <<NL>>,
     Line(1) \o <<NL>> \o Line(4) \o <<NL>> \o Line(3),
     <<NL>> \o Line(3) \o <<NL>> \o Line(2),
     <<>>}

MaxChunk == 3       \* symbols in one data event

\* JSON.parse(line) returns
Parses(line) ==
    /\ Len(line) = 2
    /\ line[1][1] = line[2][1]
    /\ line[1][2] = 1
    /\ line[2][2] = 2
    /\ "junk" \notin DOMAIN Messages[line[1][1]]

JsonParse(line) == Messages[line[1][1]]

\* text.split("\n")
RECURSIVE Split(_)
Split(text) ==
    IF \A i \in 1..Len(text) : text[i] # NL THEN <<text>>
    ELSE LET i == CHOOSE j \in 1..Len(text) :
                      text[j] = NL /\ \A l \in 1..(j - 1) : text[l] # NL
         IN  <<SubSeq(text, 1, i - 1)>> \o Split(SubSeq(text, i + 1, Len(text)))

\* the mutant of IsNotification: no message is taken for a notification
IsNotificationNever(request) == FALSE

\* request.id === undefined
IsNotification(request) == "id" \notin DOMAIN request

\* the lines of the loop that reach handleRequest: not blank, parsed, with an id
Handled(lines) ==
    SelectSeq(lines, LAMBDA line : /\ line # <<>>
                                   /\ Parses(line)
                                   /\ ~IsNotification(JsonParse(line)))

\* handleRequest up to its await: the request is sent to MCP_SERVER_URL
Started(lines) ==
    [i \in 1..Len(Handled(lines)) |->
        [request |-> JsonParse(Handled(lines)[i]), pc |-> "fetching"]]

\* the mutant of checkExit: the requests in flight are not waited for
checkExitWhenEnded(ended, pending) == IF ended THEN 0 ELSE -1

\* checkExit: the exit status, -1 when the process goes on
checkExit(ended, pending) == IF ended /\ pending = 0 THEN 0 ELSE -1

\* the line handleRequest writes: the server's response, or the error built
\* for a response that is not ok or for a fetch or a body that fails
ResponseLine(request, outcome) ==
    CASE outcome = "ok" -> [jsonrpc |-> "2.0", id |-> request.id, result |-> "response"]
      [] outcome = "notOk" ->
             [jsonrpc |-> "2.0", id |-> request.id,
              error |-> [code |-> -32000, message |-> "HTTP error"]]
      [] outcome = "failed" ->
             [jsonrpc |-> "2.0", id |-> request.id,
              error |-> [code |-> -32000, message |-> "Request failed"]]

Outcomes == {"ok", "notOk", "failed"}

InitProxy ==
    /\ now = Epoch
    /\ ticks = 0
    /\ oauthCodes = <<>>
    /\ oauthPkce = <<>>
    /\ mcpSessions = <<>>
    /\ users = SeedUsers
    /\ accounts = <<>>
    /\ contacts = <<>>
    /\ opportunities = <<>>
    /\ tasks = <<>>
    /\ reminders = <<>>
    /\ tenants = SeedTenants
    /\ auditLogs = <<>>
    /\ issued = <<>>
    /\ tokenReq = [p \in Clients |-> IdleReq]
    /\ exchanges = [c \in 1..MaxCodes |-> <<>>]
    /\ sseOpened = <<>>
    /\ http = NoHttp
    /\ authInput = NoToken
    /\ authResult = [none |-> TRUE]
    /\ stream \in Streams
    /\ read = 0
    /\ buffer = <<>>
    /\ pendingRequests = 0
    /\ stdinEnded = FALSE
    /\ calls = <<>>
    /\ stdout = <<>>
    /\ exitCode = -1

ServerSide == <<now, ticks, oauthVars, mcpSessions, crmVars, sseOpened, http, authVars>>

\* process.stdin.on("data"): a chunk of k symbols arrives
data(k) ==
    /\ exitCode = -1
    /\ ~stdinEnded
    /\ read + k <= Len(stream)
    /\ \E lines \in {Split(buffer \o SubSeq(stream, read + 1, read + k))} :
          \E started \in {Started(SubSeq(lines, 1, Len(lines) - 1))} :
              /\ buffer' = lines[Len(lines)]
              /\ pendingRequests' = pendingRequests + Len(started)
              /\ calls' = calls \o started
    /\ read' = read + k
    /\ UNCHANGED <<stream, stdinEnded, stdout, exitCode, ServerSide>>

\* process.stdin.on("end"): what is left in the buffer is handled, then checkExit
end ==
    /\ exitCode = -1
    /\ ~stdinEnded
    /\ read = Len(stream)
    /\ stdinEnded' = TRUE
    /\ \E started \in {IF buffer # <<>> THEN Started(<<buffer>>) ELSE <<>>} :
          /\ pendingRequests' = pendingRequests + Len(started)
          /\ calls' = calls \o started
          /\ exitCode' = checkExit(TRUE, pendingRequests + Len(started))
    /\ buffer' = <<>>
    /\ UNCHANGED <<stream, read, stdout, ServerSide>>

\* handleRequest from the settled fetch to its return: one line is written
handleRequest(i, outcome) ==
    /\ exitCode = -1
    /\ i \in 1..Len(calls)
    /\ calls[i].pc = "fetching"
    /\ stdout' = Append(stdout, ResponseLine(calls[i].request, outcome))
    /\ calls' = [calls EXCEPT ![i].pc = "written"]
    /\ UNCHANGED <<stream, read, buffer, pendingRequests, stdinEnded, exitCode, ServerSide>>

\* the finally callback of a handleRequest call
finally(i) ==
    /\ exitCode = -1
    /\ i \in 1..Len(calls)
    /\ calls[i].pc = "written"
    /\ calls' = [calls EXCEPT ![i].pc = "finished"]
    /\ pendingRequests' = pendingRequests - 1
    /\ exitCode' = checkExit(stdinEnded, pendingRequests - 1)
    /\ UNCHANGED <<stream, read, buffer, stdinEnded, stdout, ServerSide>>

Settles == \E i \in 1..Len(calls), outcome \in Outcomes : handleRequest(i, outcome)
Finishes == \E i \in 1..Len(calls) : finally(i)

NextProxy ==
    \/ \E k \in 1..MaxChunk : data(k)
    \/ end
    \/ Settles
    \/ Finishes

SpecProxy == InitProxy /\ [][NextProxy]_vars

\* every fetch in flight settles, and a callback that is due is run
SpecProxyLive == SpecProxy /\ WF_vars(Settles) /\ WF_vars(Finishes)

-----------------------------------------------------------------------------
(* The generated identifiers (mcp/authCodes.ts, mcp/sessions.ts).  create  *)
(* inserts what generateCode / generateShortId returns without a query on  *)
(* the table; each character is chars[Math.floor(Math.random() * n)], so a *)
(* call can return any string of the alphabet, one returned before         *)
(* included.  Two values stand for the strings.                            *)

MaxIds == 2         \* create calls on each table in one behaviour

\* the strings generateCode can return
generateCode == {1, 2}

\* the strings generateShortId can return
generateShortId == {1, 2}

\* authCodes.create, called by POST /oauth/code
authCodesCreate(args) ==
    /\ Len(issued) < MaxIds
    /\ \E code \in generateCode :
          \E created \in {AuthCodesCreate(oauthCodes, code, args, now)} :
              /\ oauthCodes' = created
              /\ issued' = Append(issued, created[Len(created)])
              /\ http' = [route |-> "POST /oauth/code", request |-> args, status |-> 200,
                          body |-> [code |-> code]]
    /\ UNCHANGED <<now, ticks, oauthPkce, tokenReq, exchanges, mcpSessions, crmVars,
                   sseOpened, authVars, proxyVars>>

\* authCodes.exchange, called by POST /oauth/token
authCodesExchange(args) ==
    /\ \E out \in {AuthCodesExchange(oauthCodes, oauthPkce, args, now)} :
          /\ oauthCodes' = out.oauthCodes
          /\ oauthPkce' = out.oauthPkce
          /\ http' = [route |-> "POST /oauth/token", request |-> args,
                      status |-> ExchangeResponse(out.result).status,
                      body |-> out.result]
    /\ UNCHANGED <<now, ticks, issued, tokenReq, exchanges, mcpSessions, crmVars,
                   sseOpened, authVars, proxyVars>>

\* sessions.create, called by GET /sse
sessionsCreate(args) ==
    /\ Len(sseOpened) < MaxIds
    /\ \E sessionId \in generateShortId :
          \E created \in {SessionsCreate(mcpSessions, sessionId, args, now)} :
              /\ mcpSessions' = created
              /\ sseOpened' = Append(sseOpened, created[Len(created)])
              /\ http' = [route |-> "GET /sse", status |-> 200,
                          body |-> [endpoint |-> sessionId]]
    /\ UNCHANGED <<now, ticks, oauthVars, crmVars, authVars, proxyVars>>

\* sessions.lookup, called by POST /messages
sessionsLookup(sessionId) ==
    /\ http' = [route |-> "POST /messages", request |-> [sessionId |-> sessionId],
                status |-> 0, token |-> SessionsLookup(mcpSessions, sessionId, now)]
    /\ UNCHANGED <<now, ticks, oauthVars, mcpSessions, crmVars, sseOpened, authVars,
                   proxyVars>>

NextIds ==
    \/ \E token \in {TokA, TokB} : authCodesCreate([token |-> token, state |-> ""])
    \/ \E code \in generateCode : authCodesExchange([code |-> code, codeVerifier |-> ""])
    \/ \E token \in {TokA, TokB} : sessionsCreate([token |-> token])
    \/ \E sessionId \in generateShortId : sessionsLookup(sessionId)

SpecIds == Init /\ [][NextIds]_vars

\* accounts.list walked page by page over tables that do not change.  The
\* caller keeps the arguments of the walk and the items it has received, and
\* asks for the next page with the nextCursor of the last one.
MaxListed == 3      \* accounts in the table that is listed

AccountKinds == {<<"tA", 0>>, <<"tA", Epoch>>, <<"tB", 0>>}

InitList ==
    /\ now = Epoch
    /\ ticks = 0
    /\ oauthCodes = <<>>
    /\ oauthPkce = <<>>
    /\ mcpSessions = <<>>
    /\ users = SeedUsers
    /\ \E n \in 0..MaxListed : \E kinds \in [1..n -> AccountKinds] :
          accounts = [i \in 1..n |-> Doc("accounts", i, kinds[i][1], kinds[i][2])]
    /\ contacts = <<>>
    /\ opportunities = <<>>
    /\ tasks = <<>>
    /\ reminders = <<>>
    /\ tenants = SeedTenants
    /\ auditLogs = <<>>
    /\ issued = <<>>
    /\ tokenReq = [p \in Clients |-> IdleReq]
    /\ exchanges = [c \in 1..MaxCodes |-> <<>>]
    /\ sseOpened = <<>>
    /\ http = NoHttp
    /\ authInput = NoToken
    /\ authResult = [none |-> TRUE]
    /\ ProxyNotStarted

ListArgs ==
    {[limit |-> l] : l \in 0..2}
    \cup {[limit |-> l, includeDeleted |-> d] : l \in 1..2, d \in BOOLEAN}
    \cup {[includeDeleted |-> TRUE]}

\* the response to a page request, with the walk it belongs to
Page(args, token, out, walk, seen) ==
    /\ Commit(out.db)
    /\ http' = [route |-> "convex", function |-> "list", table |-> "accounts",
                args |-> args, token |-> token, result |-> out.result, walk |-> walk,
                seen |-> IF out.result.ok THEN seen \o out.result.value.items ELSE seen]
    /\ UNCHANGED <<now, ticks, oauthVars, mcpSessions, sseOpened, authVars, proxyVars>>

\* the first page of a walk
list(args, token) ==
    \E out \in {accountsList(Db, args, token, now)} : Page(args, token, out, args, <<>>)

\* the next page: the same arguments with the nextCursor of the last page
listNext ==
    /\ http.route = "convex"
    /\ http.function = "list"
    /\ http.result.ok
    /\ http.result.value.hasMore
    /\ \E args \in {Merge(http.walk, [cursor |-> http.result.value.nextCursor])} :
          \E out \in {accountsList(Db, args, http.token, now)} :
              Page(args, http.token, out, http.walk, http.seen)

NextList ==
    \/ \E args \in ListArgs : list(args, TokA)
    \/ listNext

SpecList == InitList /\ [][NextList]_vars

\* the entity tools called through POST /mcp on the seeded tables
ToolCalls ==
    {[name |-> "delete_account", arguments |-> a] :
        a \in {[id |-> <<"accounts", 1>>], [id |-> <<"accounts", 1>>, force |-> TRUE],
               [id |-> <<"accounts", 1>>, force |-> FALSE]}}
    \cup {[name |-> n, arguments |-> [id |-> <<"accounts", 1>>]] :
            n \in {"restore_account", "get_account"}}
    \cup {[name |-> n, arguments |-> [id |-> <<"contacts", 1>>]] :
            n \in {"delete_contact", "restore_contact", "get_contact"}}
    \cup {[name |-> n, arguments |-> [id |-> <<"opportunities", 1>>]] :
            n \in {"delete_opportunity", "restore_opportunity", "get_opportunity"}}
    \cup {[name |-> n, arguments |-> [id |-> <<"tasks", k>>]] :
            n \in {"get_task", "delete_task", "restore_task"}, k \in 1..2}
    \cup {[name |-> n, arguments |-> [id |-> <<"reminders", 1>>]] :
            n \in {"get_reminder", "delete_reminder", "restore_reminder"}}
    \cup {[name |-> "list_accounts", arguments |-> [name |-> ""]]}

\* u1 makes every call; u2 those on the task of its own tenant and on an
\* account of the other
ToolRequests ==
    {Request(NoToken, Bearer(TokA), "", 0, Body("1", ToolsCall, c)) : c \in ToolCalls}
    \cup {Request(NoToken, Bearer(TokB), "", 0, Body("1", ToolsCall, c)) :
            c \in {d \in ToolCalls : d.arguments = [id |-> <<"tasks", 2>>]
                                     \/ d.name = "restore_account"}}

NextTools ==
    \E r \in ToolRequests : postMcp(r)

SpecTools == InitCrm /\ [][NextTools]_vars

-----------------------------------------------------------------------------
(* The PKCE relation: pkce.verify and pkce.cleanup beside the OAuth routes *)

Valid == [valid |-> TRUE]
Invalid(error) == [valid |-> FALSE, error |-> error]

\* the mutant of PkceVerify: the challenge is consumed by a passing comparison only
PkceVerifyKeepsFailed(pkce, args, t) ==
    LET j == FirstIndex(pkce, LAMBDA c : c.state = args.state)
    IN  IF j = 0
        THEN [oauthPkce |-> pkce, result |-> Valid]
        ELSE LET challenge == pkce[j]
             IN  IF challenge.expiresAt < t
                 THEN [oauthPkce |-> DeleteAt(pkce, j), result |-> Invalid("Challenge expired")]
                 ELSE IF args.codeVerifier = ""
                 THEN [oauthPkce |-> pkce, result |-> Invalid("Code verifier required")]
                 ELSE IF challenge.codeChallengeMethod = "S256"
                 THEN IF S256(args.codeVerifier) # challenge.codeChallenge
                      THEN [oauthPkce |-> pkce, result |-> Invalid("Invalid code verifier")]
                      ELSE [oauthPkce |-> DeleteAt(pkce, j), result |-> Valid]
                 ELSE IF args.codeVerifier # challenge.codeChallenge
                      THEN [oauthPkce |-> pkce, result |-> Invalid("Invalid code verifier")]
                      ELSE [oauthPkce |-> DeleteAt(pkce, j), result |-> Valid]

\* pkce.verify, one store transaction: the relation afterwards and the
\* result; an absent codeVerifier is ""
PkceVerify(pkce, args, t) ==
    LET j == FirstIndex(pkce, LAMBDA c : c.state = args.state)
    IN  IF j = 0
        THEN [oauthPkce |-> pkce, result |-> Valid]
        ELSE LET challenge == pkce[j]
                 deleted == DeleteAt(pkce, j)
             IN  [oauthPkce |-> deleted,
                  result |->
                      IF challenge.expiresAt < t
                      THEN Invalid("Challenge expired")
                      ELSE IF args.codeVerifier = ""
                      THEN Invalid("Code verifier required")
                      ELSE IF challenge.codeChallengeMethod = "S256"
                      THEN IF S256(args.codeVerifier) # challenge.codeChallenge
                           THEN Invalid("Invalid code verifier")
                           ELSE Valid
                      ELSE IF args.codeVerifier # challenge.codeChallenge
                           THEN Invalid("Invalid code verifier")
                           ELSE Valid]

\* the records stored for a state
ChallengesOf(pkce, state) == {j \in 1..Len(pkce) : pkce[j].state = state}

\* a call of the public mutation pkce.verify; found and expired describe the
\* relation the call met
pkceVerify(state, codeVerifier) ==
    /\ \E out \in {PkceVerify(oauthPkce, [state |-> state, codeVerifier |-> codeVerifier], now)} :
          /\ oauthPkce' = out.oauthPkce
          /\ http' = [route |-> "pkce.verify",
                      request |-> [state |-> state, codeVerifier |-> codeVerifier],
                      found |-> ChallengesOf(oauthPkce, state) # {},
                      expired |-> \E j \in ChallengesOf(oauthPkce, state) :
                                     oauthPkce[j].expiresAt < now,
                      result |-> out.result]
    /\ UNCHANGED <<now, ticks, oauthCodes, issued, tokenReq, exchanges, mcpSessions,
                   crmVars, sseOpened, authVars, proxyVars>>

\* pkce.cleanup
pkceCleanup ==
    /\ oauthPkce' = Sweep(oauthPkce, now)
    /\ UNCHANGED <<now, ticks, oauthCodes, issued, tokenReq, exchanges, mcpSessions, crmVars,
                   sseOpened, http, authVars, proxyVars>>

PkceStates == {"s1", "s2"}
\* the challenges GET /oauth/authorize carries: S256 of v1, and v2 in plain
PkceQueries ==
    {[state |-> "s1", codeChallenge |-> "h1", codeChallengeMethod |-> "S256"],
     [state |-> "s1", codeChallenge |-> "v2", codeChallengeMethod |-> "plain"],
     [state |-> "s2", codeChallenge |-> "h1", codeChallengeMethod |-> "S256"]}
PkceVerifiers == {"", "v1"}

NextPkce ==
    \/ Tick(PKCE_TTL + 1)
    \/ \E q \in PkceQueries :
          handleAuthorize(q.state, q.codeChallenge, q.codeChallengeMethod)
    \/ \E s \in PkceStates, v \in PkceVerifiers : pkceVerify(s, v)
    \/ handleOauthCode(TokA, "s1")
    \/ \E b \in {r \in RaceBodies : r.code = 1} : handleToken(b)
    \/ pkceCleanup

SpecPkce == Init /\ [][NextPkce]_vars

-----------------------------------------------------------------------------
(* Claims about the code round trip and the PKCE relation *)

\* C11: POST /oauth/code {token: T, state: s} with T non-empty returns a code
\* c bound to T, and the first POST /oauth/token with grant_type
\* authorization_code and code c made within 5 minutes of it is answered 200
\* with access_token = T, refresh_token = T, token_type Bearer and
\* expires_in 3600.
C11_RoundTrip ==
    /\ (http.route = "POST /oauth/code" /\ http.request.token # NoToken)
       => /\ http.status = 200
          /\ http.body.code = Len(issued)
          /\ issued[http.body.code].token = http.request.token
          /\ issued[http.body.code].state = http.request.state
    /\ (/\ http.route = "POST /oauth/token"
        /\ http.request.grant_type = "authorization_code"
        /\ http.request.code \in 1..Len(issued)
        /\ Len(exchanges[http.request.code]) = 1
        /\ exchanges[http.request.code][1].within)
       => /\ http.status = 200
          /\ http.body.access_token = issued[http.request.code].token
          /\ http.body.refresh_token = issued[http.request.code].token
          /\ http.body.token_type = "Bearer"
          /\ http.body.expires_in = 3600

\* a code minted for a state was exchanged exactly 5 minutes later
C11_Witness ==
    /\ http.route = "POST /oauth/token"
    /\ http.request.code \in 1..Len(issued)
    /\ issued[http.request.code].state = "s1"
    /\ Len(exchanges[http.request.code]) = 1
    /\ exchanges[http.request.code][1].within
    /\ now = issued[http.request.code].createdAt + 5 * 60 * 1000
    /\ http.status = 200
    /\ http.body.access_token = issued[http.request.code].token

\* is the state a call of pkce.verify has just left
IsVerify == http.route = "pkce.verify"

\* C12: pkce.verify consumes the challenge: after a call for state s that found
\* a stored challenge, whatever its result, no challenge for s remains; and a
\* verify for s that follows it reports valid whatever code_verifier it carries.
C12_VerifyConsumes ==
    /\ [](IsVerify /\ http.found => ChallengesOf(oauthPkce, http.request.state) = {})
    /\ [](IsVerify /\ ~http.found => http.result = Valid)
    /\ [][(/\ IsVerify /\ http.found
           /\ http' # http
           /\ http'.route = "pkce.verify"
           /\ http'.request.state = http.request.state)
          => (~http'.found /\ http'.result = Valid)]_vars

\* a verify with a wrong verifier met a live challenge and was refused
C12_Witness ==
    /\ IsVerify /\ http.found /\ ~http.expired
    /\ http.request.codeVerifier = "v1"
    /\ http.result = Invalid("Invalid code verifier")
    /\ http.request.state = "s1"
    /\ ChallengesOf(oauthPkce, "s1") = {}
    /\ ChallengesOf(oauthPkce, "s2") # {}

\* C13: the oauthPkce relation holds at most one record per state, whatever
\* the sequence of authorize, verify, exchange and cleanup calls.
C13_OnePerState ==
    \A i \in 1..Len(oauthPkce), j \in 1..Len(oauthPkce) :
        oauthPkce[i].state = oauthPkce[j].state => i = j

\* a challenge was stored again for a state that had one, beside another state's
C13_Witness ==
    /\ Len(oauthPkce) = 2
    /\ oauthPkce[1].state = "s2"
    /\ oauthPkce[2].state = "s1"
    /\ oauthPkce[2].createdAt > oauthPkce[1].createdAt
    /\ http.route = "GET /oauth/authorize"

\* C14: pkce.verify for a state whose stored challenge has passed its
\* expiresAt gives the result it gives for a state with no stored challenge.
C14_ExpiredIsAbsent ==
    (IsVerify /\ http.expired) => http.result = PkceVerify(<<>>, http.request, now).result

\* C15: authCodes.exchange deletes the challenge stored for the code's state
\* exactly when it succeeds: afterwards no record for that state remains, and
\* an exchange that fails leaves the oauthPkce relation unchanged.
C15_PkceFrame ==
    [][(/\ http'.route = "POST /oauth/token"
        /\ http'.request.grant_type = "authorization_code"
        /\ (oauthCodes' # oauthCodes \/ exchanges' # exchanges \/ http' # http))
       => IF http'.status = 200
          THEN /\ ChallengesOf(oauthPkce', issued[http'.request.code].state) = {}
               /\ oauthPkce' = SelectSeq(oauthPkce,
                                  LAMBDA r : r.state # issued[http'.request.code].state)
          ELSE oauthPkce' = oauthPkce]_vars

\* an expired code was refused while the challenge of its state was stored and live
C15_Witness ==
    /\ http.route = "POST /oauth/token"
    /\ http.status = 400
    /\ http.body = InvalidGrant("Authorization code expired")
    /\ \E j \in ChallengesOf(oauthPkce, issued[http.request.code].state) :
          ~(oauthPkce[j].expiresAt < now)

-----------------------------------------------------------------------------
(* Claims about the resolved identity and the dispatcher *)

\* the stored users a payload's sub names, and those its email names
NamedBySub(payload) ==
    {i \in 1..Len(users) : payload.sub # <<>> /\ users[i]._id = payload.sub[1]}
NamedByEmail(payload) ==
    {i \in 1..Len(users) : payload.email # "" /\ users[i].email = payload.email}

\* what the claim lets a lookup with this payload return
Resolves(payload, result) ==
    LET bySub == NamedBySub(payload)
        byEmail == NamedByEmail(payload)
        found == IF bySub # {} THEN bySub
                 ELSE IF byEmail # {} THEN {CHOOSE i \in byEmail : \A j \in byEmail : i <= j}
                 ELSE {}
    IN  IF found = {}
        THEN ~result.ok /\ result.code = "UNAUTHORIZED"
        ELSE \A i \in found :
                IF users[i].isActive
                THEN /\ result.ok
                     /\ result.user = users[i]
                     /\ result.userId = users[i]._id
                     /\ result.tenantId = users[i].tenantId
                     /\ result.userRole = users[i].role
                ELSE ~result.ok /\ result.code = "FORBIDDEN"

\* C16: getAuthContextFromToken returns an AuthContext only for an existing
\* active user: the user the sub claim's first part names is used and the
\* email claim ignored; otherwise the first user with the email claim; none
\* is UNAUTHORIZED; an inactive one is FORBIDDEN.
C16_ResolvedUser ==
    ("at" \in DOMAIN authResult /\ authInput # NoToken /\ decodeJwtPayload(authInput).ok)
    => LET payload == decodeJwtPayload(authInput).payload
       IN  /\ Resolves(payload, authResult.tokenAuth)
           /\ validateJwtClaims(payload, authResult.at).valid
              => Resolves(payload, authResult.hardened)

\* sub names the deactivated user and email names an active one: the email
\* is not consulted
C16_Witness ==
    /\ "at" \in DOMAIN authResult
    /\ authInput # NoToken
    /\ decodeJwtPayload(authInput).ok
    /\ decodeJwtPayload(authInput).payload.sub = <<"u3", "session">>
    /\ decodeJwtPayload(authInput).payload.email = "a@x"
    /\ users = SeedUsers
    /\ authResult.tokenAuth = forbidden("User account is deactivated")

\* the documents a served call addressed, and the tenant of its caller
Addressed(h) == {i \in 1..Len(Db[h.table]) : Db[h.table][i]._id = h.args.id}
CallerTenant(h) == IF h.token = TokA THEN "tA" ELSE "tB"
Foreign(h) == \E i \in Addressed(h) : Db[h.table][i].tenantId # CallerTenant(h)

\* C17: get, update, remove and restore of the five entity kinds answer a
\* caller that addresses another tenant's entity with the NOT_FOUND error, code
\* and message, they give for an id that does not exist, and leave the tables
\* as they were.
C17_ForeignIsNotFound ==
    /\ [](http.route = "convex" /\ (Foreign(http) \/ Addressed(http) = {})
          => http.result =
                [ok |-> FALSE, class |-> "CRMError", code |-> "NOT_FOUND",
                 message |-> [accounts |-> "Account not found",
                              contacts |-> "Contact not found",
                              opportunities |-> "Opportunity not found",
                              tasks |-> "Task not found",
                              reminders |-> "Reminder not found"][http.table]])
    /\ [][(http'.route = "convex" /\ http' # http /\ Foreign(http'))
          => UNCHANGED <<accounts, contacts, opportunities, tasks, reminders, auditLogs>>]_vars

\* tenant tA's user asked to restore tenant tB's deleted task
C17_Witness ==
    /\ http.route = "convex"
    /\ http.function = "restore"
    /\ http.table = "tasks"
    /\ http.token = TokA
    /\ http.args.id = <<"tasks", 2>>
    /\ tasks[2].tenantId = "tB"
    /\ tasks[2].deletedAt # 0
    /\ http.result.code = "NOT_FOUND"
    /\ Len(auditLogs) = 1

\* the request served last was passed to handleMCPRequest
Dispatched == IsMcpPost /\ http.dispatched

\* C18: a tools/call whose name is not in the routing table is answered with
\* the JSON-RPC error -32000 whose data.code is VALIDATION_ERROR, and no CRM
\* query or mutation is invoked.
C18_UnknownTool ==
    (/\ Dispatched
     /\ RequestMethod = ToolsCall
     /\ http.request.body.params.name # ""
     /\ \A k \in 1..Len(TOOLS) : TOOLS[k] # http.request.body.params.name)
    => /\ HasError(http.run.answer, -32000)
       /\ "result" \notin DOMAIN http.run.answer
       /\ http.run.answer.error.data.code = "VALIDATION_ERROR"
       /\ http.run.invoked = <<>>
       /\ IsNull(http.run.crm)
       /\ http.body = http.run.answer

\* drop_database was called with a bearer token after an account was created
C18_Witness ==
    /\ http.route = "POST /mcp"
    /\ http.dispatched
    /\ http.token = TokA
    /\ http.request.body.params.name = "drop_database"
    /\ RequestMethod = ToolsCall
    /\ http.status = 200
    /\ HasError(http.body, -32000)
    /\ Len(accounts) = 1

\* C19: handleMCPRequest answers every method other than initialize, tools/list
\* and tools/call with the JSON-RPC error -32601 carrying the request's id, null
\* when it has none, and invokes no CRM function.
C19_UnknownMethod ==
    (Dispatched /\ RequestMethod \notin {Initialize, ToolsList, ToolsCall})
    => /\ HasError(http.run.answer, -32601)
       /\ "result" \notin DOMAIN http.run.answer
       /\ http.run.answer.id = (IF http.request.body.id = "absent" THEN "null"
                                ELSE http.request.body.id)
       /\ http.run.invoked = <<>>
       /\ IsNull(http.run.crm)

\* resources/list was sent without an id and with a token
C19_Witness ==
    /\ http.route = "POST /mcp"
    /\ http.dispatched
    /\ RequestMethod = <<"resources", "list">>
    /\ http.request.body.id = "absent"
    /\ http.status = 200
    /\ HasError(http.body, -32601)
    /\ http.body.id = "null"

\* C20: for every tools/call, an error raised by the CRM function it invokes
\* is answered with the JSON-RPC error -32000 and no result; when it is a
\* CRMError, data carries its code, message and details.
C20_ErrorsPassThrough ==
    (Dispatched /\ ~IsNull(http.run.crm) /\ ~http.run.crm.ok)
    => /\ HasError(http.run.answer, -32000)
       /\ "result" \notin DOMAIN http.run.answer
       /\ IF http.run.crm.class = "CRMError"
          THEN /\ http.run.answer.error.data.code = http.run.crm.code
               /\ http.run.answer.error.data.message = http.run.crm.message
               /\ "details" \in DOMAIN http.run.crm
                  => /\ "details" \in DOMAIN http.run.answer.error.data
                     /\ http.run.answer.error.data.details = http.run.crm.details
          ELSE http.run.answer.error.data.code = "INTERNAL_ERROR"

\* C21: every response to POST /mcp (200, 401, 202 and 400) carries the
\* Mcp-Session-Id and the Mcp-Protocol-Version headers, and Mcp-Session-Id is
\* the client's whenever the client sent one.
C21_McpHeaders ==
    http.route = "POST /mcp"
    => /\ http.status \in {200, 401, 202, 400}
       /\ http.sessionHeader # ""
       /\ http.versionHeader = MCP_PROTOCOL_VERSION
       /\ http.request.mcpSessionId # ""
          => http.sessionHeader = http.request.mcpSessionId

\* is h the response to a refresh_token grant with a non-empty refresh_token
IsRefresh(h) ==
    /\ h.route = "POST /oauth/token"
    /\ h.request.grant_type = "refresh_token"
    /\ h.request.refresh_token # NoToken

\* C22: POST /oauth/token with grant_type=refresh_token and a non-empty
\* refresh_token R answers 200 with access_token = R and refresh_token = R
\* for any R, a string that is no JWT included, and the request leaves
\* oauthCodes, oauthPkce and mcpSessions as they were.
C22_RefreshEchoes ==
    /\ [](IsRefresh(http)
          => /\ http.status = 200
             /\ http.body.access_token = http.request.refresh_token
             /\ http.body.refresh_token = http.request.refresh_token)
    /\ [][IsRefresh(http') /\ http' # http
          => UNCHANGED <<oauthCodes, oauthPkce, mcpSessions>>]_vars

\* a refresh grant with a string that is no JWT, or one sent beside the code of a stored
\* authorization code has been answered while codes and challenges are stored
C22_Witness ==
    /\ IsRefresh(http)
    /\ \/ http.request.refresh_token = TokJunk
       \/ http.request.code = 1
    /\ Len(oauthCodes) > 0
    /\ Len(oauthPkce) > 0
    /\ Len(mcpSessions) > 0

\* is h the response to a tools/call of an admin-only tool made with the token
\* of a user who is active and not an admin
MemberCallsAdminTool(h) ==
    /\ h.route = "POST /mcp"
    /\ h.dispatched
    /\ h.request.body.method = ToolsCall
    /\ h.request.body.params.name \in AdminTools
    /\ getAuthContext(users, h.token, now).ok
    /\ getAuthContext(users, h.token, now).userRole # "admin"

\* the function an admin-only tool is routed to refuses a caller who is
\* active and not an admin with CRMError FORBIDDEN and writes nothing
AdminGuardInFunction ==
    /\ [](MemberCallsAdminTool(http)
          => /\ http.run.crm.class = "CRMError"
             /\ http.run.crm.code = "FORBIDDEN")
    /\ [][MemberCallsAdminTool(http') => UNCHANGED <<users, tenants, auditLogs>>]_vars

\* C23: invite_user, deactivate_user, reactivate_user and update_tenant called
\* by an authenticated active user whose role is not admin fail with FORBIDDEN
\* and leave users, tenants and auditLogs unchanged.
C23_AdminOnly ==
    /\ [](MemberCallsAdminTool(http)
          => /\ "error" \in DOMAIN http.run.answer
             /\ http.run.answer.error.data.code = "FORBIDDEN")
    /\ [][MemberCallsAdminTool(http') => UNCHANGED <<users, tenants, auditLogs>>]_vars

\* does the step answer a delete_account by a user of the account's tenant on
\* a non-deleted account with at least one non-deleted contact or opportunity
DeletesAccountWithDependents ==
    /\ http'.route = "POST /mcp"
    /\ http'.dispatched
    /\ http'.request.body.method = ToolsCall
    /\ http'.request.body.params.name = "delete_account"
    /\ LET auth == getAuthContext(users, http'.token, now)
           account == Get(accounts, http'.request.body.params.arguments.id)
       IN  /\ auth.ok
           /\ ~IsNull(account)
           /\ account.tenantId = auth.tenantId
           /\ account.deletedAt = 0
           /\ Dependents(contacts, account._id) \cup Dependents(opportunities, account._id)
                  # {}

\* is force true in the arguments of the call the step answers
Forced ==
    LET args == http'.request.body.params.arguments
    IN  "force" \in DOMAIN args /\ args.force

\* the account and every contact and opportunity that depended on it are
\* deleted after the step, and nothing else is
CascadeDone ==
    LET id == http'.request.body.params.arguments.id
    IN  /\ Get(accounts', id).deletedAt # 0
        /\ \A i \in 1..Len(contacts) :
              (contacts'[i].deletedAt # 0) =
                  (contacts[i].deletedAt # 0 \/ contacts[i].accountId = id)
        /\ \A i \in 1..Len(opportunities) :
              (opportunities'[i].deletedAt # 0) =
                  (opportunities[i].deletedAt # 0 \/ opportunities[i].accountId = id)
        /\ \A i \in 1..Len(accounts) :
              accounts[i]._id # id => accounts'[i] = accounts[i]

\* accounts.remove itself refuses with CRMError DELETION_HAS_DEPENDENCIES and
\* changes nothing unless force is true, and cascades when it is
RemoveGuardsDependents ==
    [][DeletesAccountWithDependents
       => IF Forced THEN CascadeDone
          ELSE /\ http'.run.crm.class = "CRMError"
               /\ http'.run.crm.code = "DELETION_HAS_DEPENDENCIES"
               /\ UNCHANGED crmVars]_vars

\* C24: delete_account on an account with at least one non-deleted contact or
\* opportunity fails with DELETION_HAS_DEPENDENCIES and changes nothing
\* unless force is true; with force = true the account and every non-deleted
\* contact and opportunity of it are soft-deleted in the one transaction.
C24_DeleteAccountDependencies ==
    [][DeletesAccountWithDependents
       => IF Forced THEN CascadeDone
          ELSE /\ "error" \in DOMAIN http'.run.answer
               /\ http'.run.answer.error.data.code = "DELETION_HAS_DEPENDENCIES"
               /\ UNCHANGED crmVars]_vars

\* the documents of tbl that the cascade which deleted the account deleted
\* with it: they carry the account's deletedAt and, unlike a document deleted
\* by its own remove, have no delete entry in the audit log
CascadedWith(tbl, account) ==
    {i \in 1..Len(tbl) :
        /\ tbl[i].accountId = account._id
        /\ tbl[i].deletedAt # 0
        /\ tbl[i].deletedAt = account.deletedAt
        /\ \A k \in 1..Len(auditLogs) :
              ~(auditLogs[k].action = "delete" /\ auditLogs[k].entityId = tbl[i]._id)}

\* C25: restoring an account that a cascade delete soft-deleted also restores
\* the contacts and opportunities soft-deleted in the same cascade.
C25_RestoreCascades ==
    [][(/\ http'.route = "POST /mcp"
        /\ http'.dispatched
        /\ http'.request.body.method = ToolsCall
        /\ http'.request.body.params.name = "restore_account"
        /\ http'.run.crm.ok)
       => LET account == Get(accounts, http'.request.body.params.arguments.id)
          IN  /\ \A i \in CascadedWith(contacts, account) : contacts'[i].deletedAt = 0
              /\ \A i \in CascadedWith(opportunities, account) :
                    opportunities'[i].deletedAt = 0]_vars

GetTools == {"get_account", "get_contact", "get_opportunity", "get_task", "get_reminder"}

\* C26: soft-deleted records are excluded from the standard queries: a get_*
\* or a list_* called without includeDeleted never returns an entity that is
\* soft-deleted (removed and not restored since).
C26_DeletedExcluded ==
    (/\ http.route = "POST /mcp"
     /\ http.dispatched
     /\ http.request.body.method = ToolsCall
     /\ http.run.crm.ok)
    => LET name == http.request.body.params.name
           returned == http.run.crm.value
       IN  /\ name \in GetTools => returned.deletedAt = 0
           /\ name = "list_accounts"
              => \A k \in 1..Len(returned.items) : returned.items[k].deletedAt = 0

\* the audit entries the step appends
Appended == SubSeq(auditLogs', Len(auditLogs) + 1, Len(auditLogs'))

\* the documents of a table the step inserts or changes
Written(table) ==
    {i \in 1..Len(Db'[table]) : i > Len(Db[table]) \/ Db'[table][i] # Db[table][i]}

\* C27: every entity a successful mutation creates, updates, soft-deletes or
\* restores gets its own audit log entry in the same transaction, each
\* contact and opportunity soft-deleted by a cascading delete included; a
\* mutation that fails writes no audit log entry.
C27_AuditPerEntity ==
    [][http'.route = "convex"
       => /\ \A table \in EntityTables : \A i \in Written(table) :
                \E k \in 1..Len(Appended) :
                    /\ Appended[k].entityType = AuditEntityType[table]
                    /\ Appended[k].entityId = Db'[table][i]._id
          /\ ~http'.result.ok => auditLogs' = auditLogs]_vars

\* C28: an opportunity never references a contact of another account than its
\* own: create_opportunity and update_opportunity reject a contactId whose
\* contact is not a non-deleted contact of the opportunity's account.
C28_ContactOfSameAccount ==
    /\ \A i \in 1..Len(opportunities) :
          "contactId" \in DOMAIN opportunities[i]
          => LET contact == Get(contacts, opportunities[i].contactId)
             IN  ~IsNull(contact) /\ contact.accountId = opportunities[i].accountId
    /\ (/\ http.route = "convex"
        /\ http.function \in {"create", "update"}
        /\ http.table = "opportunities"
        /\ "contactId" \in DOMAIN http.args
        /\ http.result.ok)
       => LET contact == Get(contacts, http.args.contactId)
          IN  /\ ~IsNull(contact)
              /\ contact.deletedAt = 0
              /\ contact.accountId = http.result.value.accountId

\* does the step serve op ("remove" or "restore") of an entity module for an
\* entity of the caller's tenant
Serves(op) ==
    /\ http'.route = "POST /mcp"
    /\ http'.dispatched
    /\ http'.request.body.method = ToolsCall
    /\ http'.run.invoked # <<>>
    /\ http'.run.invoked[1] \in EntityTables
    /\ http'.run.invoked[2] = op
    /\ LET auth == getAuthContext(users, http'.token, now)
           entity == Get(Db[http'.run.invoked[1]], http'.request.body.params.arguments.id)
       IN  auth.ok /\ ~IsNull(entity) /\ entity.tenantId = auth.tenantId

\* the entity the step addresses, before and after it
Before == Get(Db[http'.run.invoked[1]], http'.request.body.params.arguments.id)
After == Get(Db'[http'.run.invoked[1]], http'.request.body.params.arguments.id)

\* all fields but deletedAt and updatedAt are as before
SameButStamps ==
    /\ DOMAIN After = DOMAIN Before
    /\ \A f \in DOMAIN Before \ {"deletedAt", "updatedAt"} : After[f] = Before[f]

\* C29: for the five entities soft delete is a two-state machine: remove
\* succeeds only on a non-deleted entity (NOT_FOUND on a deleted one, state
\* unchanged), restore succeeds only on a deleted entity (VALIDATION_ERROR on
\* a non-deleted one, state unchanged), and remove and restore change no
\* field but deletedAt and updatedAt, so that remove followed by restore
\* leaves the entity non-deleted with every other field as before.
C29_SoftDeleteMachine ==
    [][/\ Serves("remove")
          => IF Before.deletedAt # 0
             THEN /\ ~http'.run.crm.ok
                  /\ http'.run.crm.code = "NOT_FOUND"
                  /\ UNCHANGED crmVars
             ELSE http'.run.crm.ok => After.deletedAt # 0 /\ SameButStamps
       /\ Serves("restore")
          => IF Before.deletedAt = 0
             THEN /\ ~http'.run.crm.ok
                  /\ http'.run.crm.code = "VALIDATION_ERROR"
                  /\ UNCHANGED crmVars
             ELSE http'.run.crm.ok => After.deletedAt = 0 /\ SameButStamps]_vars

\* an entity that was removed and then restored is as it was at the start
C29_Witness ==
    /\ http.route = "POST /mcp"
    /\ http.request.body.params.name = "restore_contact"
    /\ http.run.crm.ok
    /\ Len(auditLogs) = 2
    /\ auditLogs[1].action = "delete"
    /\ auditLogs[1].entityId = <<"contacts", 1>>
    /\ auditLogs[2].action = "restore"
    /\ auditLogs[2].entityId = <<"contacts", 1>>
    /\ contacts[1] = Doc("contacts", 1, "tA", 0)

\* the records a walk with the arguments args matches, in list order
Matching(args) ==
    SelectSeq(accounts,
              LAMBDA a : /\ a.tenantId = "tA"
                         /\ ("includeDeleted" \in DOMAIN args /\ args.includeDeleted)
                            \/ a.deletedAt = 0)

\* C30: with the listed data unchanged, following nextCursor from page to
\* page until hasMore is false returns every matching record exactly once
\* and in list order; each page holds at most limit items, and hasMore is
\* true exactly when matching records remain after the page.
C30_Pagination ==
    (http.route = "convex" /\ http.function = "list" /\ http.result.ok)
    => LET page == http.result.value
           limit == IF "limit" \in DOMAIN http.walk THEN http.walk.limit ELSE 20
           matching == Matching(http.walk)
       IN  /\ Len(page.items) <= limit
           /\ Len(http.seen) <= Len(matching)
           /\ http.seen = SubSeq(matching, 1, Len(http.seen))
           /\ page.hasMore = (Len(http.seen) < Len(matching))
           /\ ~page.hasMore => http.seen = matching

\* a walk of three pages has ended, over a table that also holds a deleted
\* account and another tenant's
C30_Witness ==
    /\ http.route = "convex"
    /\ http.function = "list"
    /\ http.result.ok
    /\ ~http.result.value.hasMore
    /\ http.walk = [limit |-> 1]
    /\ "cursor" \in DOMAIN http.args
    /\ Len(http.seen) = 2
    /\ Len(accounts) > 2
    /\ http.seen = Matching(http.walk)

\* the documents of a table that are not deleted and whose account is deleted
Orphans(tbl) ==
    {i \in 1..Len(tbl) :
        /\ tbl[i].deletedAt = 0
        /\ LET account == Get(accounts, tbl[i].accountId)
           IN  IsNull(account) \/ account.deletedAt # 0}

\* C31: in every reachable state every non-deleted contact and every
\* non-deleted opportunity belongs to an account that is not soft-deleted,
\* whatever create, update, remove (with or without force) and restore calls
\* were made on accounts, contacts and opportunities.
C31_LiveChildrenHaveLiveAccount ==
    Orphans(contacts) = {} /\ Orphans(opportunities) = {}

\* an account was removed with its dependents and restored, and a contact
\* created under it before the removal is still deleted
C31_Witness ==
    /\ Len(auditLogs) = 3
    /\ auditLogs[1].action = "create" /\ auditLogs[1].entityType = "contact"
    /\ auditLogs[2].action = "delete" /\ auditLogs[2].entityType = "account"
    /\ auditLogs[3].action = "restore" /\ auditLogs[3].entityType = "account"
    /\ accounts[1].deletedAt = 0
    /\ contacts[3].accountId = <<"accounts", 1>>
    /\ contacts[3].deletedAt # 0

\* the tenants that hold a user
UserTenants(tbl) == {tbl[i].tenantId : i \in 1..Len(tbl)}

\* C32: a tenant that has an active admin never reaches a state with none:
\* after any sequence of invite, deactivate, reactivate and updateRole
\* mutations issued by its users, each executed atomically, at least one user
\* of the tenant has role admin and isActive = true.
C32_AdminRemains ==
    [][\A tenantId \in UserTenants(users) :
          ActiveAdmins(users, tenantId) # {} => ActiveAdmins(users', tenantId) # {}]_vars

\* the member promoted to admin has deactivated the admin who promoted them
C32_Witness ==
    /\ http.route = "convex"
    /\ http.function = "deactivate"
    /\ http.result.ok
    /\ http.token = TokM
    /\ http.args.id = "u1"
    /\ ActiveAdmins(users, "tA") = {4}

\* the oauthCodes table of the same run without sweeps: every code minted
\* and not yet exchanged (exchange deletes the record it finds)
UnsweptCodes == SelectSeq(issued, LAMBDA r : exchanges[r.code] = <<>>)

\* the records of a table that a step has deleted
Deleted(before, after) ==
    {before[i] : i \in {j \in 1..Len(before) : \A k \in 1..Len(after) : after[k] # before[j]}}

\* the step is a call of authCodes.cleanup or sessions.cleanup
IsSweep == exchanges' = exchanges /\ http' = http

\* an exchange returns what it returns in the run without sweeps
ExchangeUnaffectedBySweep ==
    [][\A c \in 1..Len(issued) :
          exchanges'[c] # exchanges[c]
          => exchanges'[c][Len(exchanges'[c])].result =
                 AuthCodesExchange(UnsweptCodes, oauthPkce,
                                   [code |-> c, codeVerifier |-> ""], now).result]_vars

\* a lookup returns what it returns in the run without sweeps, where the
\* sessions table holds every session created
LookupUnaffectedBySweep ==
    \A id \in 1..Len(sseOpened) :
        SessionsLookup(mcpSessions, sseOpened[id].sessionId, now) =
            SessionsLookup(sseOpened, sseOpened[id].sessionId, now)

\* a sweep deletes only records whose expiresAt is before the sweep time
SweepDeletesExpiredOnly ==
    [][IsSweep => /\ \A r \in Deleted(oauthCodes, oauthCodes') : r.expiresAt < now
                  /\ \A r \in Deleted(mcpSessions, mcpSessions') : r.expiresAt < now]_vars

\* C33: running authCodes.cleanup or sessions.cleanup between other
\* operations never changes the result of a later authCodes.exchange or
\* sessions.lookup call: the run with sweeps and the same run without them
\* return the same responses, and a sweep deletes only records whose
\* expiresAt is before the sweep time.
C33_SweepsUnobservable ==
    ExchangeUnaffectedBySweep /\ []LookupUnaffectedBySweep /\ SweepDeletesExpiredOnly

\* the request served last is a tools/call of a name no tool has, sent with
\* a token
UnknownToolWithToken ==
    /\ IsMcpPost
    /\ http.status # 400
    /\ RequestMethod = ToolsCall
    /\ http.request.body.params.name # ""
    /\ \A k \in 1..Len(TOOLS) : TOOLS[k] # http.request.body.params.name
    /\ getToken(http.request) # NoToken

SummaryServed ==
    /\ http.route = "convex"
    /\ http.function = "getPipelineSummary"
    /\ http.result.ok

\* the non-deleted opportunities of the tenant of the user served last
TenantOpportunities ==
    LET auth == getAuthContext(users, http.token, now)
    IN  {i \in 1..Len(opportunities) : /\ opportunities[i].tenantId = auth.tenantId
                                       /\ opportunities[i].deletedAt = 0}

RECURSIVE SumOver(_, _)
SumOver(f, indices) ==
    IF indices = {} THEN 0
    ELSE LET i == CHOOSE j \in indices : TRUE
         IN  f[i] + SumOver(f, indices \ {i})

\* the totals agree with the rows and with the table
TotalsAgree ==
    LET summary == http.result.value
    IN  /\ summary.totals.count =
               SumOver([k \in 1..Len(summary.stages) |-> summary.stages[k].count],
                       1..Len(summary.stages))
        /\ summary.totals.totalAmount =
               SumOver([i \in 1..Len(opportunities) |-> AmountOf(opportunities[i])],
                       TenantOpportunities)

\* the tenant's stages are distinct and every non-deleted opportunity of the
\* tenant is in one of them
StagesCoverOpportunities ==
    LET stages == http.result.value.stages
    IN  /\ \A k, l \in 1..Len(stages) : stages[k].stage = stages[l].stage => k = l
        /\ \A i \in TenantOpportunities :
               \E k \in 1..Len(stages) : stages[k].stage = opportunities[i].stage

\* the totals agree whenever the stages cover the opportunities
TotalsAgreeOverCoveringStages ==
    (SummaryServed /\ StagesCoverOpportunities) => TotalsAgree

\* C35: in the result of getPipelineSummary totals.count equals the sum of
\* the per-stage counts and totals.totalAmount equals the sum of the amounts
\* of all non-deleted opportunities of the tenant, in every state reachable
\* by create, update, remove and restore of opportunities and by
\* update_tenant changes to opportunityStages.
C35_PipelineTotals ==
    SummaryServed => TotalsAgree

\* position p of the stream starts a line that has been read whole, is JSON
\* and has an id
IdMessageAt(p) ==
    /\ p + 1 <= Len(stream)
    /\ p = 1 \/ stream[p - 1] = NL
    /\ stream[p][2] = 1
    /\ stream[p + 1] = <<stream[p][1], 2>>
    /\ {"id"} \subseteq DOMAIN Messages[stream[p][1]]
    /\ \/ p + 2 <= read /\ stream[p + 2] = NL
       \/ p + 1 = Len(stream) /\ stdinEnded

\* the messages with an id read so far, in the order of the stream
IdMessagesRead ==
    LET at == SelectSeq([p \in 1..Len(stream) |-> p], IdMessageAt)
    IN  [i \in 1..Len(at) |-> Messages[stream[at[i]][1]]]

\* the lines on stdout that carry the id of a request
LinesFor(request) == {l \in 1..Len(stdout) : stdout[l].id = request.id}

\* C36: the proxy writes exactly one JSON-RPC line to stdout for every
\* complete JSON message with an id that it reads from stdin (the server's
\* response, or a -32000 error carrying the request's id when the HTTP call
\* fails or is not ok), and it neither forwards nor answers a message without
\* an id; the responses may be written in another order than the requests
\* were read.
C36_OneLinePerRequest ==
    /\ [i \in 1..Len(calls) |-> calls[i].request] = IdMessagesRead
    /\ \A i \in 1..Len(calls) :
          /\ Cardinality(LinesFor(calls[i].request)) =
                 (IF calls[i].pc = "fetching" THEN 0 ELSE 1)
          /\ \A l \in LinesFor(calls[i].request) :
                 \/ "result" \in DOMAIN stdout[l]
                 \/ stdout[l].error.code = -32000
    /\ Len(stdout) = Cardinality({i \in 1..Len(calls) : calls[i].pc # "fetching"})
    /\ exitCode = 0 => \A i \in 1..Len(calls) : calls[i].pc = "finished"

\* the proxy has exited after two requests and a notification, the second
\* request answered before the first and one of them with an error
C36_Witness ==
    /\ exitCode = 0
    /\ Len(calls) = 2
    /\ Len(stdout) = 2
    /\ stdout[1].id = 2
    /\ "error" \in DOMAIN stdout[1]
    /\ "result" \in DOMAIN stdout[2]
    /\ stream[4] = <<2, 1>>

\* the handleRequest calls at a position
CallsAt(pcs) == {i \in 1..Len(calls) : calls[i].pc \in pcs}

\* status 0 is the exit of checkExit: stdin has ended and nothing is pending
ExitsWhenDrained == exitCode = 0 => (stdinEnded /\ pendingRequests = 0)

\* once stdin has ended the proxy exits
ExitsAfterEnd == stdinEnded ~> (exitCode = 0)

\* C37: the proxy exits with status 0 only in a state where stdin has ended
\* and pendingRequests is 0; pendingRequests is never negative and always
\* equals the number of forwarded requests whose response has not yet been
\* written; and once stdin has ended, if every fetch in flight eventually
\* settles, the proxy eventually exits.
C37_PendingIsUnwritten ==
    /\ [](/\ ExitsWhenDrained
          /\ pendingRequests >= 0
          /\ pendingRequests = Cardinality(CallsAt({"fetching"})))
    /\ ExitsAfterEnd

\* C37 as amended: pendingRequests equals the number of handleRequest calls
\* whose finally callback has not yet run, which is the number of forwarded
\* requests whose response has not yet been written plus those whose
\* response is written and whose callback is still due; the rest as stated.
C37_PendingIsUnfinished ==
    /\ [](/\ ExitsWhenDrained
          /\ pendingRequests >= 0
          /\ pendingRequests = Cardinality(CallsAt({"fetching", "written"}))
          /\ pendingRequests >= Cardinality(CallsAt({"fetching"})))
    /\ ExitsAfterEnd

\* the proxy has exited after stdin ended with a request still in the buffer
\* and another already answered
C37_Witness ==
    /\ exitCode = 0
    /\ stdinEnded
    /\ pendingRequests = 0
    /\ Len(calls) = 2
    /\ CallsAt({"finished"}) = {1, 2}
    /\ stream[Len(stream)] = <<3, 2>>

\* the records of a table that .first() selects for their own key
FirstOfOwnKey(tbl, key) ==
    \A i \in 1..Len(tbl) : FirstIndex(tbl, LAMBDA r : r[key] = tbl[i][key]) = i

\* C38: at any time at most one oauthCodes record exists for a given code
\* and at most one mcpSessions record for a given sessionId, so that the
\* first() lookup by code in authCodes.exchange and by sessionId in
\* sessions.lookup selects the record created by the call that returned
\* that code or sessionId.
C38_OneRecordPerId ==
    /\ \A i, j \in 1..Len(oauthCodes) :
          oauthCodes[i].code = oauthCodes[j].code => i = j
    /\ \A i, j \in 1..Len(mcpSessions) :
          mcpSessions[i].sessionId = mcpSessions[j].sessionId => i = j
    /\ FirstOfOwnKey(oauthCodes, "code")
    /\ FirstOfOwnKey(mcpSessions, "sessionId")

\* a code returned to one caller is exchanged for the token of another: the
\* exchange that follows two creates of the same code by different callers
ExchangeServesOwnToken ==
    (/\ http.route = "POST /oauth/token"
     /\ http.status = 200)
        => \A i \in 1..Len(issued) :
              issued[i].code = http.request.code => http.body.access_token = issued[i].token

====
